---- MODULE Spec2Model ----
(***************************************************************************)
(* RepoLM admission control: the JobQueue of src/src/concurrency.py.       *)
(*                                                                         *)
(* One JobQueue instance in front of its ThreadPoolExecutor.  Every method *)
(* of JobQueue runs its whole body under self._lock, so each method call   *)
(* is one atomic action; the task function runs outside the lock, between  *)
(* the worker picking the work item up and the finally clause of _wrap.    *)
(*                                                                         *)
(* Job ids are the callers' fresh uuid4 prefixes (routes/generate.py:72,   *)
(* routes/repo.py:234, routes/audio.py:50): the k-th submit of a run       *)
(* carries id k, so ids also record the order of the submit calls.         *)
(*                                                                         *)
(* Next to it: the per-IP limiter (IPLimitContext, same file), the         *)
(* add_repo handler of src/src/routes/repo.py that pairs the two, and the  *)
(* circuit breaker and retrying call of src/src/services/llm.py; the       *)
(* job_status table of src/src/db.py and src/src/db_postgres.py with       *)
(* db_retry, the background task functions of src/src/routes that write    *)
(* it, the executor after shutdown_pools, and the SSE semaphore; the three *)
(* queues by their counts, submit with a repeated job_id, the TTLDict of   *)
(* src/src/state.py, the streaming LLM calls, the streaming routes of      *)
(* src/src/routes/generate.py, the admission of jobs across a restart of   *)
(* the process, and the v1 API of src/src/routes/api_v1.py.  Each          *)
(* component has its own variables and its own specification; a            *)
(* specification leaves the variables of the components it does not run    *)
(* at their initial values.                                                *)
(***************************************************************************)
EXTENDS Integers, Sequences, FiniteSets

\* ------------------------------------------------------------------ bounds

\* Number of submit calls in one run.
MaxJobs == 5

\* The scaled-down non-zero queue depth tried next to the shipped one.
MaxDepth == 1

\* Number of IPLimitContext objects created in one run (acquire_* calls).
MaxCtx == 5

\* Number of add_repo requests that reach acquire_ingest in one run.
MaxReq == 3

\* Number of call_llm invocations in one run.
MaxCalls == 6

\* Seconds that pass on the job store's clock in one run.
MaxTime == 1

\* Number of streaming responses in one run.
MaxStreams == 4

\* Number of IPLimitContext objects in a run in which release() calls on
\* one context overlap.
MaxRaceCtx == 3

\* The scaled-down MAX_QUEUE_DEPTH of the three job queues taken by their
\* counts.
MaxQueued == 2

\* max_size of the TTLDict under check (state.repos has 20), scaled down.
MaxSize == 2

\* default_ttl of the TTLDict under check in seconds (7200 for
\* state.repos), scaled down.
DefaultTtl == 2

\* Seconds that pass on the TTLDict's clock in one run.
MaxClock == 3

\* Number of chunks a streamed response has at most.
MaxChunks == 2

\* Streaming requests followed against the per-address stream table: one
\* more than MAX_SSE_PER_IP, so that the cap can refuse
MaxSseReq == 4

\* Jobs admitted in a run of the admission routes.
MaxAdmitted == 3

\* Requests holding a per-IP slot while jobs are admitted.
MaxHolders == 1

\* Restarts of the server process in one run.
MaxRestarts == 1

\* Age in seconds beyond which cleanup_old_jobs deletes a job record
\* (max_age_hours * 3600 = 86400), scaled down.
MaxAge == 1

\* Seconds that pass on the database's clock while jobs are admitted.
MaxUptime == 2

\* MAX_SSE_STREAMS of the run (an environment variable, 20 when unset),
\* scaled down so that MaxStreams streams exhaust it.
MaxSse == 2

\* ------------------------------------------------------- program constants

\* concurrency.py:82
MAX_QUEUE_DEPTH == 50

\* Python's None, as returned for "no position".
None == 0

\* concurrency.py:35-36
MAX_SSE_PER_IP == 3
MAX_INGEST_PER_IP == 2

Jobs == 1..MaxJobs

Ctxs == 1..MaxCtx

Requests == 1..MaxReq

\* services/llm.py:74, _circuit = CircuitBreaker(failure_threshold=5,
\* cooldown_seconds=60)
FAILURE_THRESHOLD == 5
COOLDOWN == 60

\* services/llm.py:77-78
RETRY_STATUS_CODES == {429, 500, 502, 503}
RETRY_DELAYS == <<2, 4, 8>>

\* services/llm.py:48, the latency sample keeps the last 100
LATENCY_WINDOW == 100

\* Threads that call into services/llm.py (workers of generate_pool)
Threads == {1, 2}

\* Client addresses (request.client.host)
IPs == {"a", "b"}

\* Who calls release() on a context: the request handler (1) and the task it
\* handed to the pool (2), routes/repo.py:230-246
Releasers == {1, 2}

\* max_workers of the instances under check (lines 19-21 read them from the
\* environment): the smallest pool, the pool of the end-to-end scenario, and
\* the smallest pool whose 0.8 threshold keeps a worker unused.
WorkerChoices == {1, 2, 5}

\* MAX_QUEUE_DEPTH is a module global read at each call (line 125): the
\* shipped value and scaled-down settings of it.
DepthChoices == {0, MaxDepth, MAX_QUEUE_DEPTH}

VARIABLES
    max_workers,      \* JobQueue._max_workers (and the executor's max_workers)
    max_queue_depth,  \* the module global MAX_QUEUE_DEPTH
    active_count,     \* JobQueue._active_count
    queue,            \* JobQueue._queue: the keys of the OrderedDict, in order
    pool_q,           \* the executor's work queue: items submitted, not started
    pc,               \* per job: where it is in its life
    submit_ret,       \* per job: what submit returned to its caller
    completions,      \* per job: number of _on_complete calls made by its _wrap
    failure_logged,   \* whether _wrap has logged a "Job %s failed" record
    escaped,          \* jobs whose exception left _wrap for the executor
    dispatched,       \* ids in the order they were handed to the executor
    next_job          \* number of submit calls made so far

\* The per-IP limiter: one counter table and the contexts made for it
VARIABLES
    ip_max,           \* IPLimitContext._max of the table's contexts
    ip_counts,        \* the counter dict (_ip_ingest_counts / _ip_sse_counts):
                      \* a function on the keys present
    ctx_ip,           \* per context: IPLimitContext._ip ("none": not created)
    ctx_ret,          \* per context: what try_acquire returned
    ctx_acquired,     \* per context: IPLimitContext._acquired
    rel_pc,           \* per context and releaser: "checked" between the test of
                      \* _acquired (line 57) and the locked block (line 58)
    releases_done,    \* per context: runs of the locked block of release
    next_ctx          \* number of contexts created so far

ip_vars == <<ip_max, ip_counts, ctx_ip, ctx_ret, ctx_acquired, rel_pc,
             releases_done, next_ctx>>

\* The add_repo requests of routes/repo.py, one per context
VARIABLES
    req_pc,           \* per request: where its handler stands, or its response
    req_job,          \* per request: the job it submitted (0: none)
    task_pc           \* per request: where _ingest_with_release stands

ar_vars == <<req_pc, req_job, task_pc>>

\* The circuit breaker _circuit and the calls of services/llm.py.  Instants
\* are kept as whole seconds counted from the present reading of
\* time.time(), 0 standing for every instant that is not in the future.
VARIABLES
    failure_count,    \* CircuitBreaker._failure_count
    open_until,       \* CircuitBreaker._open_until, from the present on
    total_calls,      \* CircuitBreaker._total_calls
    total_errors,     \* CircuitBreaker._total_errors
    n_latencies,      \* len(CircuitBreaker._latencies)
    cb_lock,          \* CircuitBreaker._lock: 0 when free, else its holder
    since_opened,     \* seconds since the circuit was last opened, up to
                      \* COOLDOWN (COOLDOWN as well when it never was)
    calls_started,    \* number of call_llm invocations so far
    call_pc,          \* per thread: where its call stands
    attempt,          \* per thread: the loop variable of call_llm
    wake_at,          \* per thread: when its time.sleep is due to return,
                      \* from the present on
    outcomes,         \* per thread: how the attempts of its call have ended,
                      \* in order ("ok", "transient", "fatal")
    call_ret,         \* per thread: how its last call ended
    requests,         \* per thread: upstream requests issued by its call
    slept,            \* per thread: the delays its call has slept, in order
    successes,        \* per thread: record_success calls made by its call
    failures          \* per thread: record_failure calls made by its call

llm_vars == <<failure_count, open_until, total_calls, total_errors,
              n_latencies, cb_lock, since_opened, calls_started, call_pc, attempt,
              wake_at, outcomes, call_ret, requests, slept, successes, failures>>

vars == <<max_workers, max_queue_depth, active_count, queue, pool_q, pc,
          submit_ret, completions, failure_logged, escaped, dispatched, next_job>>

\* ------------------------------------------------------------ pure helpers

\* submit, line 119-120: util = active/max_workers if max_workers else 1.0;
\* util < 0.8.  For integers a, w > 0 the double a/w is below the double 0.8
\* exactly when 5a < 4w (they differ by at least 1/(5w) unless equal).
UtilBelowOne(a, w) == IF w # 0 THEN a < w ELSE FALSE
UtilBelowThreshold(a, w) == IF w # 0 THEN 5 * a < 4 * w ELSE FALSE

\* x in an OrderedDict's keys
InSeq(x, s) == \E i \in 1..Len(s) : s[i] = x

\* OrderedDict.__setitem__, line 127: a new key goes to the end, an existing
\* key keeps its place.
QueuePut(q, j) == IF InSeq(j, q) THEN q ELSE Append(q, j)

\* del self._queue[job_id], line 162
QueueDelNothing(q, j) == q
QueueDel(q, j) == SelectSeq(q, LAMBDA x : x # j)

\* len(self._queue) < MAX_QUEUE_DEPTH, line 125
QueueNotOverfull(q, depth) == Len(q) <= depth
QueueHasRoom(q, depth) == Len(q) < depth

\* pos = len(self._queue), line 128, taken after the insertion
QueuedPositionZeroBased(q) == Len(q) - 1
QueuedPosition(q) == Len(q)

\* popitem(last=False), line 147: <<the key that leaves, what remains>>
PopItemLast(q) == <<q[Len(q)], SubSeq(q, 1, Len(q) - 1)>>
PopItem(q) == <<Head(q), Tail(q)>>

\* _on_complete, lines 145-148: the count after the decrement and, when an
\* entry was popped (redispatch), the increment
ActiveNotDecremented(a, redispatch) == IF redispatch THEN a + 1 ELSE a - 1
ActiveNotReincremented(a, redispatch) == a - 1
ActiveAfterComplete(a, redispatch) == IF redispatch THEN (a - 1) + 1 ELSE a - 1

\* if self._queue, line 146
QueueLongerThanOne(q) == Len(q) > 1
QueueNonEmpty(q) == q # <<>>

\* get_position, lines 151-157: first index whose key is job_id, else None
get_position_zero_based(job_id) ==
    IF InSeq(job_id, queue)
    THEN (CHOOSE i \in 1..Len(queue) : queue[i] = job_id) - 1
    ELSE None
get_position(job_id) ==
    IF InSeq(job_id, queue)
    THEN CHOOSE i \in 1..Len(queue) :
            /\ queue[i] = job_id
            /\ \A k \in 1..(i - 1) : queue[k] # job_id
    ELSE None

\* cancel, lines 159-164: what the call returns, True on the branch that
\* deletes the entry
cancel(job_id) == InSeq(job_id, queue)

\* Worker threads of the executor that are inside a work item.
Busy == {j \in Jobs : pc[j] \in {"running", "finally"}}

\* --------------------------------------------------------------------- Init

Init ==
    /\ max_workers \in WorkerChoices
    /\ max_queue_depth \in DepthChoices
    /\ active_count = 0
    /\ queue = <<>>
    /\ pool_q = <<>>
    /\ pc = [j \in Jobs |-> "new"]
    /\ submit_ret = [j \in Jobs |-> <<"none", None>>]
    /\ completions = [j \in Jobs |-> 0]
    /\ failure_logged = FALSE
    /\ escaped = {}
    /\ dispatched = <<>>
    /\ next_job = 0

\* ------------------------------------------------------------------ actions

\* JobQueue.submit, lines 112-131
Submit(j) ==
    /\ j = next_job + 1
    /\ next_job' = j
    /\ IF UtilBelowThreshold(active_count, max_workers)
       THEN /\ active_count' = active_count + 1
            /\ pool_q' = Append(pool_q, j)
            /\ dispatched' = Append(dispatched, j)
            /\ pc' = [pc EXCEPT ![j] = "pending"]
            /\ submit_ret' = [submit_ret EXCEPT ![j] = <<"running", None>>]
            /\ UNCHANGED queue
       ELSE IF QueueHasRoom(queue, max_queue_depth)
       THEN /\ queue' = QueuePut(queue, j)
            /\ pc' = [pc EXCEPT ![j] = "queued"]
            /\ submit_ret' = [submit_ret EXCEPT ![j] = <<"queued", QueuedPosition(queue')>>]
            /\ UNCHANGED <<active_count, pool_q, dispatched>>
       ELSE /\ pc' = [pc EXCEPT ![j] = "rejected"]
            /\ submit_ret' = [submit_ret EXCEPT ![j] = <<"rejected", None>>]
            /\ UNCHANGED <<active_count, queue, pool_q, dispatched>>
    /\ UNCHANGED <<max_workers, max_queue_depth, completions, failure_logged, escaped>>

\* A worker thread of the executor takes the oldest work item and enters
\* _wrap, line 133-136: at most max_workers threads exist.
WorkerStart(j) ==
    /\ pool_q # <<>>
    /\ j = Head(pool_q)
    /\ Cardinality(Busy) < max_workers
    /\ pool_q' = Tail(pool_q)
    /\ pc' = [pc EXCEPT ![j] = "running"]
    /\ UNCHANGED <<max_workers, max_queue_depth, active_count, queue,
                   submit_ret, completions, failure_logged, escaped, dispatched, next_job>>

\* fn(*args) returns, line 136: control goes to the finally clause
FnReturns(j) ==
    /\ pc[j] = "running"
    /\ pc' = [pc EXCEPT ![j] = "finally"]
    /\ UNCHANGED <<max_workers, max_queue_depth, active_count, queue, pool_q,
                   submit_ret, completions, failure_logged, escaped, dispatched, next_job>>

\* except Exception, line 137: the clause handles what fn raised (the task
\* functions handed to submit raise nothing outside Exception)
WrapLetsThrough == FALSE
WrapCatches == TRUE

\* finally, lines 139-140: where control goes once fn has raised and the
\* except clause is through
WrapAfterExcept == "finally"

\* fn(*args) raises, lines 136-139
FnRaises(j) ==
    /\ pc[j] = "running"
    /\ pc' = [pc EXCEPT ![j] = WrapAfterExcept]
    /\ failure_logged' = (WrapCatches \/ failure_logged)
    /\ escaped' = IF WrapCatches THEN escaped ELSE escaped \cup {j}
    /\ UNCHANGED <<max_workers, max_queue_depth, active_count, queue, pool_q,
                   submit_ret, completions, dispatched, next_job>>

\* _on_complete, lines 142-149, called from the finally clause of _wrap
\* (line 140); _wrap then returns to the executor.
OnComplete(j) ==
    /\ pc[j] = "finally"
    /\ completions' = [completions EXCEPT ![j] = @ + 1]
    /\ IF QueueNonEmpty(queue)
       THEN /\ active_count' = ActiveAfterComplete(active_count, TRUE)
            /\ queue' = PopItem(queue)[2]
            /\ pool_q' = Append(pool_q, PopItem(queue)[1])
            /\ dispatched' = Append(dispatched, PopItem(queue)[1])
            /\ pc' = [pc EXCEPT ![j] = "done", ![PopItem(queue)[1]] = "pending"]
       ELSE /\ active_count' = ActiveAfterComplete(active_count, FALSE)
            /\ pc' = [pc EXCEPT ![j] = "done"]
            /\ UNCHANGED <<queue, pool_q, dispatched>>
    /\ UNCHANGED <<max_workers, max_queue_depth, submit_ret, failure_logged, escaped,
                   next_job>>

\* Ids a caller can pass to get_position and cancel: every id submitted so
\* far, and the next unused id for an id the queue has never seen.
CallerIds == 1..(next_job + 1)

\* JobQueue.get_position, lines 151-157: reads under the lock and changes
\* nothing; its caller receives get_position(j)
GetPosition(j) ==
    /\ j \in CallerIds
    /\ UNCHANGED vars

\* JobQueue.cancel, lines 159-164
Cancel(j) ==
    /\ j \in CallerIds
    /\ IF cancel(j)
       THEN /\ queue' = QueueDel(queue, j)
            /\ pc' = [pc EXCEPT ![j] = "cancelled"]
       ELSE UNCHANGED <<queue, pc>>
    /\ UNCHANGED <<max_workers, max_queue_depth, active_count, pool_q,
                   submit_ret, completions, failure_logged, escaped, dispatched,
                   next_job>>

\* ------------------------------------------------------ the per-IP limiter

\* dict.get(key, default), lines 49 and 59
DictGet(d, k, default) == IF k \in DOMAIN d THEN d[k] ELSE default

\* d[key] = value, lines 52 and 63
DictSet(d, k, v) == [x \in DOMAIN d \cup {k} |-> IF x = k THEN v ELSE d[x]]

\* d.pop(key, None), line 61
DictPop(d, k) == [x \in DOMAIN d \ {k} |-> d[x]]

\* `if current >= self._max`, line 50: the table has no room for one more
AtCapOffByOne(current, max) == current > max
AtCap(current, max) == current >= max

\* the locked block of release, lines 59-63, as the table it leaves
ReleasedTableKeepsZero(d, ip) == DictSet(d, ip, DictGet(d, ip, 1) - 1)
ReleasedTable(d, ip) ==
    IF DictGet(d, ip, 1) <= 1
    THEN DictPop(d, ip)
    ELSE DictSet(d, ip, DictGet(d, ip, 1) - 1)

\* The module-level tables are empty dicts (lines 31-32) and no context
\* exists; the cap is the one of the table looked at (acquire_ingest, line
\* 75, or acquire_sse, line 68).
IpInit ==
    /\ ip_max \in {MAX_INGEST_PER_IP, MAX_SSE_PER_IP}
    /\ ip_counts = <<>>
    /\ ctx_ip = [c \in Ctxs |-> "none"]
    /\ ctx_ret = [c \in Ctxs |-> "none"]
    /\ ctx_acquired = [c \in Ctxs |-> FALSE]
    /\ rel_pc = [c \in Ctxs |-> [k \in Releasers |-> "idle"]]
    /\ releases_done = [c \in Ctxs |-> 0]
    /\ next_ctx = 0

\* acquire_ingest / acquire_sse, lines 67-78: IPLimitContext.__init__ (lines
\* 41-45) and try_acquire (lines 47-54) on the new context.  A context that
\* got False is dropped by the caller (None is returned).
Acquire(c, ip) ==
    /\ c = next_ctx + 1
    /\ next_ctx' = c
    /\ ctx_ip' = [ctx_ip EXCEPT ![c] = ip]
    /\ IF AtCap(DictGet(ip_counts, ip, 0), ip_max)
       THEN /\ ctx_ret' = [ctx_ret EXCEPT ![c] = "False"]
            /\ UNCHANGED <<ip_counts, ctx_acquired>>
       ELSE /\ ip_counts' = DictSet(ip_counts, ip, DictGet(ip_counts, ip, 0) + 1)
            /\ ctx_acquired' = [ctx_acquired EXCEPT ![c] = TRUE]
            /\ ctx_ret' = [ctx_ret EXCEPT ![c] = "True"]
    /\ UNCHANGED <<ip_max, rel_pc, releases_done>>

\* release, line 57: `if self._acquired` is read without the lock; a False
\* flag ends the call
ReleaseCheck(c, k) ==
    /\ c <= next_ctx
    /\ rel_pc[c][k] = "idle"
    /\ rel_pc' = [rel_pc EXCEPT ![c][k] = IF ctx_acquired[c] THEN "checked" ELSE "idle"]
    /\ UNCHANGED <<ip_max, ip_counts, ctx_ip, ctx_ret, ctx_acquired,
                   releases_done, next_ctx>>

\* release, lines 58-64: the block under _ip_lock
ReleaseLocked(c, k) ==
    /\ rel_pc[c][k] = "checked"
    /\ ip_counts' = ReleasedTable(ip_counts, ctx_ip[c])
    /\ ctx_acquired' = [ctx_acquired EXCEPT ![c] = FALSE]
    /\ releases_done' = [releases_done EXCEPT ![c] = @ + 1]
    /\ rel_pc' = [rel_pc EXCEPT ![c][k] = "idle"]
    /\ UNCHANGED <<ip_max, ctx_ip, ctx_ret, next_ctx>>

\* ------------------------------------------- add_repo (src/src/routes/repo.py)

\* The k-th add_repo request that reaches acquire_ingest (line 221) makes
\* context k; the request, its context and its task share the index.

\* What the awaited calls between the acquire and the submit can do: lines
\* 225-232 find the balance sufficient, find it short, or raise (database
\* error); lines 235-236 go through or raise.
TokenOutcomes == {"ok", "insufficient", "error"}
CreateOutcomes == {"ok", "error"}

\* The handler is through: a response was returned or the exception left it
Responses == {"r429", "r402", "r503", "r200", "r500"}

ArInit ==
    /\ req_pc = [c \in Ctxs |-> "none"]
    /\ req_job = [c \in Ctxs |-> 0]
    /\ task_pc = [c \in Ctxs |-> "none"]

\* lines 219-223: acquire_ingest; None is answered with 429
AddRepoAcquire(c, ip) ==
    /\ Acquire(c, ip)
    /\ req_pc' = [req_pc EXCEPT ![c] = IF ctx_ret'[c] = "True" THEN "tokens" ELSE "r429"]
    /\ UNCHANGED <<req_job, task_pc>>

\* lines 225-232: get_current_user, get_token_balance, spend_tokens.  A
\* short balance goes to the release of line 230; an exception leaves the
\* handler at once (no try encloses these lines).
AddRepoTokens(c, outcome) ==
    /\ req_pc[c] = "tokens"
    /\ req_pc' = [req_pc EXCEPT ![c] =
                    CASE outcome = "ok" -> "create"
                      [] outcome = "insufficient" -> "release402"
                      [] outcome = "error" -> "r500"]
    /\ UNCHANGED <<req_job, task_pc>>
    /\ UNCHANGED ip_vars

\* lines 234-236: create_job and state.repos.set
AddRepoCreateJob(c, outcome) ==
    /\ req_pc[c] = "create"
    /\ req_pc' = [req_pc EXCEPT ![c] = IF outcome = "ok" THEN "submit" ELSE "r500"]
    /\ UNCHANGED <<req_job, task_pc>>
    /\ UNCHANGED ip_vars

\* lines 244-253: ingest_queue.submit(repo_id, _ingest_with_release);
\* "rejected" goes to the release of line 246, the other two are answered
AddRepoSubmit(c, j) ==
    /\ req_pc[c] = "submit"
    /\ Submit(j)
    /\ req_job' = [req_job EXCEPT ![c] = j]
    /\ req_pc' = [req_pc EXCEPT ![c] =
                    IF submit_ret'[j][1] = "rejected" THEN "release503" ELSE "r200"]
    /\ task_pc' = [task_pc EXCEPT ![c] =
                    IF submit_ret'[j][1] = "rejected" THEN "none" ELSE "run_ingest"]
    /\ UNCHANGED ip_vars

\* The response that follows a release by the handler (lines 231, 247)
AfterRelease(p) == IF p = "release402" THEN "r402" ELSE "r503"

\* ip_ctx.release() in the handler, lines 230 and 246: the unlocked test
AddRepoReleaseCheck(c) ==
    /\ req_pc[c] \in {"release402", "release503"}
    /\ ReleaseCheck(c, 1)
    /\ req_pc' = [req_pc EXCEPT ![c] = IF ctx_acquired[c] THEN @ ELSE AfterRelease(@)]
    /\ UNCHANGED <<req_job, task_pc>>

\* ip_ctx.release() in the handler: the locked block, then the response
AddRepoReleaseLocked(c) ==
    /\ req_pc[c] \in {"release402", "release503"}
    /\ ReleaseLocked(c, 1)
    /\ req_pc' = [req_pc EXCEPT ![c] = AfterRelease(@)]
    /\ UNCHANGED <<req_job, task_pc>>

\* _ingest_with_release on a worker thread, lines 238-240: run_ingest
\* returns or raises and control enters the finally clause
TaskRunIngestEnds(c, raised) ==
    /\ req_job[c] # 0
    /\ pc[req_job[c]] = "running"
    /\ task_pc[c] = "run_ingest"
    /\ task_pc' = [task_pc EXCEPT ![c] = IF raised THEN "finally_exc" ELSE "finally_ok"]
    /\ UNCHANGED <<req_pc, req_job>>
    /\ UNCHANGED ip_vars

\* Where the task stands once its finally clause is through
AfterFinally(p) == IF p = "finally_exc" THEN "end_exc" ELSE "end_ok"

\* ip_ctx.release() in the finally clause, line 242: the unlocked test
TaskReleaseCheck(c) ==
    /\ task_pc[c] \in {"finally_ok", "finally_exc"}
    /\ ReleaseCheck(c, 2)
    /\ task_pc' = [task_pc EXCEPT ![c] = IF ctx_acquired[c] THEN @ ELSE AfterFinally(@)]
    /\ UNCHANGED <<req_pc, req_job>>

\* ip_ctx.release() in the finally clause: the locked block
TaskReleaseLocked(c) ==
    /\ task_pc[c] \in {"finally_ok", "finally_exc"}
    /\ ReleaseLocked(c, 2)
    /\ task_pc' = [task_pc EXCEPT ![c] = AfterFinally(@)]
    /\ UNCHANGED <<req_pc, req_job>>

\* _ingest_with_release ends and hands control back to JobQueue._wrap
TaskEnds(c) ==
    /\ task_pc[c] \in {"end_ok", "end_exc"}
    /\ IF task_pc[c] = "end_ok" THEN FnReturns(req_job[c]) ELSE FnRaises(req_job[c])
    /\ task_pc' = [task_pc EXCEPT ![c] = "over"]
    /\ UNCHANGED <<req_pc, req_job>>
    /\ UNCHANGED ip_vars

\* ------------------------- circuit breaker and retrying call (services/llm.py)

\* What an upstream attempt can raise: openai.APIStatusError with a status
\* code, openai.APIConnectionError, openai.APITimeoutError, anything else
Errors ==
    {<<"status", 429>>, <<"status", 500>>, <<"status", 502>>, <<"status", 503>>,
     <<"status", 400>>, <<"status", 401>>,
     <<"connection", 0>>, <<"timeout", 0>>, <<"other", 0>>}

\* The failures the retry policy is for: the transient statuses, connection
\* errors and timeouts; every other failure is fatal to the call
TransientErrors ==
    {<<"status", 429>>, <<"status", 500>>, <<"status", 502>>, <<"status", 503>>,
     <<"connection", 0>>, <<"timeout", 0>>}

Kind(exc) == IF exc \in TransientErrors THEN "transient" ELSE "fatal"

\* _is_retryable, lines 95-101
StatusOnlyRetryable(exc) == exc[1] = "status" /\ exc[2] \in RETRY_STATUS_CODES
_is_retryable(exc) ==
    IF exc[1] = "status"
    THEN exc[2] \in RETRY_STATUS_CODES
    ELSE exc[1] \in {"connection", "timeout"}

\* The present reading of time.time()
Now == 0

\* An instant d seconds on, and the same instant d seconds later
In(d) == Now + d
Later(tm, d) == IF tm - d > Now THEN tm - d ELSE Now

\* CircuitBreaker.is_open, lines 36-41: `self._open_until > time.time()`
is_open == open_until > Now

\* `if self._failure_count >= self._failure_threshold`, line 56
TripsOnlyAbove(count) == count > FAILURE_THRESHOLD
Trips(count) == count >= FAILURE_THRESHOLD

\* record_success, line 45: the consecutive-failure counter it leaves
FailureCountAfterSuccess(count) == 0

\* record_failure, line 53: `self._failure_count += 1`, whether or not the
\* circuit opens at line 57
FailureCountResetOnOpen(count) == IF Trips(count + 1) THEN 0 ELSE count + 1
FailureCountAfterFailure(count) == count + 1

\* `attempt < len(RETRY_DELAYS)`, line 128: a retry is left
RetryLeft(a) == a < Len(RETRY_DELAYS)

\* `delay = RETRY_DELAYS[attempt]`, line 129, attempt counted from 0
FirstDelay(a) == RETRY_DELAYS[1]
Delay(a) == RETRY_DELAYS[a + 1]

\* `if _is_retryable(e) and attempt < len(RETRY_DELAYS)`, line 128
RetriesAnything(exc, a) == RetryLeft(a)
ShouldRetry(exc, a) == _is_retryable(exc) /\ RetryLeft(a)

\* `if _circuit.is_open: raise RuntimeError(...)`, lines 106-107
NeverFailsFast(open) == FALSE
FailsFast(open) == open

\* self._lock = threading.Lock(), line 27: a thread that holds it cannot
\* take it again
LockReentrant == FALSE

\* with self._lock: the lock is there to take
LockFree == cb_lock = 0

\* CircuitBreaker.__init__ for _circuit, lines 26-34 and 74 (_open_until
\* is the epoch, long past); no call under way.
LlmInit ==
    /\ failure_count = 0
    /\ open_until = 0
    /\ total_calls = 0
    /\ total_errors = 0
    /\ n_latencies = 0
    /\ cb_lock = 0
    /\ since_opened = COOLDOWN
    /\ calls_started = 0
    /\ call_pc = [t \in Threads |-> "idle"]
    /\ attempt = [t \in Threads |-> 0]
    /\ wake_at = [t \in Threads |-> 0]
    /\ outcomes = [t \in Threads |-> <<>>]
    /\ call_ret = [t \in Threads |-> <<"none", 0>>]
    /\ requests = [t \in Threads |-> 0]
    /\ slept = [t \in Threads |-> <<>>]
    /\ successes = [t \in Threads |-> 0]
    /\ failures = [t \in Threads |-> 0]

\* call_llm is entered, lines 104-110 (call_llm_stream, lines 142-151, and
\* call_llm_stream_messages, lines 186-192, begin alike): is_open is read
\* once, under the lock; an open circuit raises RuntimeError.
CallStart(t) ==
    /\ call_pc[t] \in {"idle", "done"}
    /\ calls_started < MaxCalls
    /\ LockFree
    /\ calls_started' = calls_started + 1
    /\ IF FailsFast(is_open)
       THEN /\ call_pc' = [call_pc EXCEPT ![t] = "done"]
            /\ call_ret' = [call_ret EXCEPT ![t] = <<"circuit_open", 0>>]
       ELSE /\ call_pc' = [call_pc EXCEPT ![t] = "ready"]
            /\ call_ret' = [call_ret EXCEPT ![t] = <<"none", 0>>]
    /\ attempt' = [attempt EXCEPT ![t] = 0]
    /\ outcomes' = [outcomes EXCEPT ![t] = <<>>]
    /\ requests' = [requests EXCEPT ![t] = 0]
    /\ slept' = [slept EXCEPT ![t] = <<>>]
    /\ successes' = [successes EXCEPT ![t] = 0]
    /\ failures' = [failures EXCEPT ![t] = 0]
    /\ UNCHANGED <<failure_count, open_until, total_calls, total_errors,
                   n_latencies, cb_lock, since_opened, wake_at>>

\* client.chat.completions.create(...) is issued, lines 113-123
Request(t) ==
    /\ call_pc[t] = "ready"
    /\ call_pc' = [call_pc EXCEPT ![t] = "inflight"]
    /\ requests' = [requests EXCEPT ![t] = @ + 1]
    /\ UNCHANGED <<failure_count, open_until, total_calls, total_errors,
                   n_latencies, cb_lock, since_opened, calls_started, attempt,
                   wake_at, outcomes, call_ret, slept, successes, failures>>

\* The request returns a response, lines 124-126: record_success (lines
\* 43-49) and the result is returned
RequestSucceeds(t) ==
    /\ call_pc[t] = "inflight"
    /\ LockFree
    /\ failure_count' = FailureCountAfterSuccess(failure_count)
    /\ total_calls' = total_calls + 1
    /\ n_latencies' = IF n_latencies + 1 > LATENCY_WINDOW THEN LATENCY_WINDOW
                      ELSE n_latencies + 1
    /\ successes' = [successes EXCEPT ![t] = @ + 1]
    /\ outcomes' = [outcomes EXCEPT ![t] = Append(@, "ok")]
    /\ call_pc' = [call_pc EXCEPT ![t] = "done"]
    /\ call_ret' = [call_ret EXCEPT ![t] = <<"ok", 0>>]
    /\ UNCHANGED <<open_until, total_errors, cb_lock, since_opened,
                   calls_started, attempt, wake_at, requests, slept, failures>>

\* The request raises exc, lines 127-136: a retryable error with a retry
\* left goes to time.sleep(delay) and the next round of the loop; otherwise
\* record_failure (lines 51-59) and the exception is raised again
RequestFails(t, exc) ==
    /\ call_pc[t] = "inflight"
    /\ outcomes' = [outcomes EXCEPT ![t] = Append(@, Kind(exc))]
    /\ IF ShouldRetry(exc, attempt[t])
       THEN /\ call_pc' = [call_pc EXCEPT ![t] = "sleeping"]
            /\ wake_at' = [wake_at EXCEPT ![t] = In(Delay(attempt[t]))]
            /\ slept' = [slept EXCEPT ![t] = Append(@, Delay(attempt[t]))]
            /\ attempt' = [attempt EXCEPT ![t] = @ + 1]
            /\ UNCHANGED <<failure_count, open_until, total_calls, total_errors,
                           since_opened, call_ret, failures>>
       ELSE /\ LockFree
            /\ failure_count' = FailureCountAfterFailure(failure_count)
            /\ total_errors' = total_errors + 1
            /\ total_calls' = total_calls + 1
            /\ open_until' = IF Trips(failure_count + 1) THEN In(COOLDOWN)
                             ELSE open_until
            /\ since_opened' = IF Trips(failure_count + 1) THEN 0 ELSE since_opened
            /\ failures' = [failures EXCEPT ![t] = @ + 1]
            /\ call_pc' = [call_pc EXCEPT ![t] = "done"]
            /\ call_ret' = [call_ret EXCEPT ![t] = exc]
            /\ UNCHANGED <<wake_at, slept, attempt>>
    /\ UNCHANGED <<n_latencies, cb_lock, calls_started, requests, successes>>

\* time.sleep(delay) returns, line 132, no sooner than delay seconds on
EndSleep(t) ==
    /\ call_pc[t] = "sleeping"
    /\ Now >= wake_at[t]
    /\ call_pc' = [call_pc EXCEPT ![t] = "ready"]
    /\ UNCHANGED <<failure_count, open_until, total_calls, total_errors,
                   n_latencies, cb_lock, since_opened, calls_started, attempt,
                   wake_at, outcomes, call_ret, requests, slept, successes,
                   failures>>

\* The instants ahead at which something becomes due: the end of a sleep,
\* the end of the cooldown
Timers ==
    {tm \in {wake_at[t] : t \in {x \in Threads : call_pc[x] = "sleeping"}}
              \cup {open_until} : tm > Now}

\* time.time() moves on by d seconds, to an instant at which something is
\* due (between two such instants nothing in the program reads differently)
Advance(d) ==
    /\ In(d) \in Timers
    /\ open_until' = Later(open_until, d)
    /\ wake_at' = [t \in Threads |-> Later(wake_at[t], d)]
    /\ since_opened' = IF since_opened + d > COOLDOWN THEN COOLDOWN
                       ELSE since_opened + d
    /\ UNCHANGED <<failure_count, total_calls, total_errors, n_latencies,
                   cb_lock, calls_started, call_pc, attempt, outcomes, call_ret,
                   requests, slept, successes, failures>>

\* CircuitBreaker.stats, lines 61-71 (get_circuit_stats, lines 82-83): takes
\* the lock (line 62) and, holding it, evaluates self.is_open (line 69),
\* which takes the same lock (line 38)
Stats(t) ==
    /\ call_pc[t] \in {"idle", "done"}
    /\ LockFree
    /\ IF LockReentrant
       THEN UNCHANGED <<cb_lock, call_pc>>
       ELSE /\ cb_lock' = t
            /\ call_pc' = [call_pc EXCEPT ![t] = "stats_blocked"]
    /\ UNCHANGED <<failure_count, open_until, total_calls, total_errors,
                   n_latencies, since_opened, calls_started, attempt, wake_at,
                   outcomes, call_ret, requests, slept, successes, failures>>

\* ---------------------------------------------------------------- job store

\* The job_status table (db.py:189-198, db_postgres.py:176-187) as kept by
\* the SQLite backend and by the PostgreSQL backend.  A table is the set of
\* its rows; id is the primary key.  One statement is one atomic action.
VARIABLES
    sq_jobs,    \* job_status of the SQLite database
    pg_jobs,    \* job_status of the PostgreSQL database
    db_now,     \* the clock both backends stamp rows with, in whole seconds
    got         \* what the last get_job returned from each backend, until
                \* the next write: <<>> or <<id, sqlite value, postgres value>>

store_vars == <<sq_jobs, pg_jobs, db_now, got>>

\* Python None in a str-typed argument or column (SQL NULL)
NoneStr == "None"

\* The (job_id, kind, status, message, repo_id) of the create_job calls of
\* routes/generate.py:73, routes/audio.py:51 and routes/repo.py:235,283
CreateCalls ==
    { [kind |-> "generate", status |-> "queued", message |-> "Starting...",
       repo_id |-> "r1"],
      [kind |-> "audio", status |-> "queued", message |-> "",
       repo_id |-> NoneStr] }

\* The (status, message, result) of update_job calls
UpdateCalls ==
    [status : {NoneStr, "running", "done"},
     message : {NoneStr, "50%"},
     result : {NoneStr, "out"}]

\* The rows an INSERT with this id conflicts with (PRIMARY KEY)
NoConflict(tbl, id) == {}
Conflict(tbl, id) == {r \in tbl : r.id = id}

\* A freshly inserted row: result takes its column default, NULL
NewRow(id, c, now) ==
    [id |-> id, kind |-> c.kind, status |-> c.status, message |-> c.message,
     result |-> NoneStr, repo_id |-> c.repo_id,
     created_at |-> now, updated_at |-> now]

\* db.create_job, db.py:626-632: INSERT OR REPLACE deletes the conflicting
\* row and inserts the new one
sq_create_job(tbl, id, c, now) ==
    (tbl \ Conflict(tbl, id)) \cup {NewRow(id, c, now)}

\* db_postgres.create_job, db_postgres.py:578-586: INSERT ... ON CONFLICT
\* (id) DO UPDATE SET kind, status, message, repo_id, updated_at
pg_create_job(tbl, id, c, now) ==
    IF Conflict(tbl, id) = {}
    THEN tbl \cup {NewRow(id, c, now)}
    ELSE { IF r \in Conflict(tbl, id)
           THEN [r EXCEPT !.kind = c.kind, !.status = c.status,
                          !.message = c.message, !.repo_id = c.repo_id,
                          !.updated_at = now]
           ELSE r : r \in tbl }

\* "if status is not None: sets.append(...)", db.py:639-644,
\* db_postgres.py:592-600
SetAlways(old, new) == new
SetIfGiven(old, new) == IF new = NoneStr THEN old ELSE new

\* UPDATE job_status SET ... WHERE id=?, db.py:635-648 and
\* db_postgres.py:589-607
UpdateRow(r, u, now) ==
    [r EXCEPT !.status = SetIfGiven(r.status, u.status),
              !.message = SetIfGiven(r.message, u.message),
              !.result = SetIfGiven(r.result, u.result),
              !.updated_at = now]

update_job(tbl, id, u, now) ==
    {IF r.id = id THEN UpdateRow(r, u, now) ELSE r : r \in tbl}

\* SELECT * FROM job_status WHERE id=? ... fetchone, "dict(row) if row else
\* None", db.py:651-654, db_postgres.py:610-613: <<>> stands for None
get_job(tbl, id) ==
    IF Conflict(tbl, id) = {} THEN <<>>
    ELSE <<CHOOSE r \in Conflict(tbl, id) : TRUE>>

StoreInit ==
    /\ sq_jobs = {}
    /\ pg_jobs = {}
    /\ db_now = 0
    /\ got = <<>>

\* The id a route made (uuid4 prefix) and gave to create_job, and an id
\* no create_job was made for; update_job and get_job take either
CreatedIds == {"j1"}
JobIds == CreatedIds \cup {"j2"}

\* One create_job call, given to both backends
StoreCreate(id, c) ==
    /\ sq_jobs' = sq_create_job(sq_jobs, id, c, db_now)
    /\ pg_jobs' = pg_create_job(pg_jobs, id, c, db_now)
    /\ got' = <<>>
    /\ UNCHANGED db_now

\* One update_job call, given to both backends
StoreUpdate(id, u) ==
    /\ sq_jobs' = update_job(sq_jobs, id, u, db_now)
    /\ pg_jobs' = update_job(pg_jobs, id, u, db_now)
    /\ got' = <<>>
    /\ UNCHANGED db_now

\* One get_job call, given to both backends
StoreGet(id) ==
    /\ got' = <<id, get_job(sq_jobs, id), get_job(pg_jobs, id)>>
    /\ UNCHANGED <<sq_jobs, pg_jobs, db_now>>

\* A second passes
StoreTick ==
    /\ db_now < MaxTime
    /\ db_now' = db_now + 1
    /\ got' = <<>>
    /\ UNCHANGED <<sq_jobs, pg_jobs>>

\* ------------------------------------------------------------------ db_retry

\* db_retry(fn, retries=3), db.py:51-62, around a function whose body is a
\* "with db() as conn" block (db.py:36-48), as create_job and update_job run
\* it: one call per thread at a time, the calls of the threads interleaving.
VARIABLES
    rt_pc,        \* thread -> "idle" | "calling" | "sleeping" | "returned"
                  \*           | "raised"
    rt_attempt,   \* thread -> the loop variable attempt
    rt_outcomes,  \* thread -> how each call of fn ended, in order
    rt_waits,     \* thread -> the time.sleep arguments, in tenths of a second
    rt_ret        \* thread -> what db_retry returned or raised

retry_vars == <<rt_pc, rt_attempt, rt_outcomes, rt_waits, rt_ret>>

\* db.py:51, the default every caller uses
RETRIES == 3

\* What fn can raise: <<exception class, message>>
DbErrors ==
    { <<"OperationalError", "database is locked">>,
      <<"OperationalError", "database table is Locked">>,
      <<"OperationalError", "no such table: job_status">>,
      <<"IntegrityError", "constraint failed: locked">> }

\* How one call of fn ends
FnOutcomes == {<<"ok", "row">>} \cup DbErrors

\* "locked" in str(e).lower()
SaysLocked(e) ==
    e[2] \in {"database is locked", "database table is Locked",
              "constraint failed: locked"}

\* except sqlite3.OperationalError as e: if "locked" in str(e).lower(),
\* db.py:55-56
IsLocked(e) == e[1] = "OperationalError" /\ SaysLocked(e)

\* "attempt < retries - 1", db.py:56
AttemptsLeft(a) == a < RETRIES - 1

\* "wait = 0.1 * (2 ** attempt)", db.py:57, in tenths of a second
WaitFlat(a) == 1
Wait(a) == 2 ^ a

RetryInit ==
    /\ rt_pc = [t \in Threads |-> "idle"]
    /\ rt_attempt = [t \in Threads |-> 0]
    /\ rt_outcomes = [t \in Threads |-> <<>>]
    /\ rt_waits = [t \in Threads |-> <<>>]
    /\ rt_ret = [t \in Threads |-> <<"none", "">>]

\* db_retry is entered: "for attempt in range(retries)" starts at 0
DbRetryCall(t) ==
    /\ rt_pc[t] \in {"idle", "returned", "raised"}
    /\ rt_pc' = [rt_pc EXCEPT ![t] = "calling"]
    /\ rt_attempt' = [rt_attempt EXCEPT ![t] = 0]
    /\ rt_outcomes' = [rt_outcomes EXCEPT ![t] = <<>>]
    /\ rt_waits' = [rt_waits EXCEPT ![t] = <<>>]
    /\ rt_ret' = [rt_ret EXCEPT ![t] = <<"none", "">>]

\* "return fn()", db.py:54, and the except clause, db.py:55-62: fn returns,
\* or raises and the error is either slept on or raised again.  The db()
\* block lets the error of its body through (db.py:42-46).
DbRetryFn(t, o) ==
    /\ rt_pc[t] = "calling"
    /\ rt_outcomes' = [rt_outcomes EXCEPT ![t] = Append(@, o)]
    /\ IF o[1] = "ok"
       THEN /\ rt_pc' = [rt_pc EXCEPT ![t] = "returned"]
            /\ rt_ret' = [rt_ret EXCEPT ![t] = o]
            /\ UNCHANGED rt_waits
       ELSE IF IsLocked(o) /\ AttemptsLeft(rt_attempt[t])
       THEN /\ rt_pc' = [rt_pc EXCEPT ![t] = "sleeping"]
            /\ rt_waits' = [rt_waits EXCEPT ![t] = Append(@, Wait(rt_attempt[t]))]
            /\ UNCHANGED rt_ret
       ELSE /\ rt_pc' = [rt_pc EXCEPT ![t] = "raised"]
            /\ rt_ret' = [rt_ret EXCEPT ![t] = o]
            /\ UNCHANGED rt_waits
    /\ UNCHANGED rt_attempt

\* time.sleep(wait) returns, db.py:59, and the loop goes on to the next
\* attempt; a loop that ran out would fall off the end and return None
DbRetrySleepEnds(t) ==
    /\ rt_pc[t] = "sleeping"
    /\ rt_attempt' = [rt_attempt EXCEPT ![t] = @ + 1]
    /\ IF rt_attempt[t] + 1 < RETRIES
       THEN /\ rt_pc' = [rt_pc EXCEPT ![t] = "calling"]
            /\ UNCHANGED rt_ret
       ELSE /\ rt_pc' = [rt_pc EXCEPT ![t] = "returned"]
            /\ rt_ret' = [rt_ret EXCEPT ![t] = <<"ok", "None">>]
    /\ UNCHANGED <<rt_outcomes, rt_waits>>

\* ---------------------------------------------------------- background tasks

\* The three task functions a JobQueue runs (run_generate,
\* routes/generate.py:31-56; run_audio_gen, routes/audio.py:25-34; run_ingest,
\* routes/repo.py:67-96), the routes that create their job records and the
\* polling endpoints, over the two job_status tables.  The routes and the
\* polling endpoints go through db_async, which picks the backend; the
\* tasks call db.update_job, directly or through db_async.sync_update_job.
\* A statement on the store either takes effect or raises (the database
\* stayed locked through the retries of db_retry, the connection failed).
VARIABLES
    configured,    \* db_async has been imported
    use_postgres,  \* db_async._USE_POSTGRES
    tk_fn,         \* job id -> the task function submitted for it, or "none"
    tk_pc,         \* job id -> where its task is
    tk_failed,     \* job id -> a step of the task raised
    tk_escaped,    \* job id -> an exception left the task function
    tk_written     \* job id -> the status of the task's last update_job call
                   \*           that returned

task_vars == <<configured, use_postgres, tk_fn, tk_pc, tk_failed, tk_escaped,
               tk_written>>

TaskFns == {"run_generate", "run_audio_gen", "run_ingest"}

\* str(e) of the exception a failing step raises
ExcMessage == "boom"

\* The create_job call of the route that submits fn: routes/generate.py:73,
\* routes/audio.py:51, routes/repo.py:235
CreateCallOf(fn, id) ==
    IF fn = "run_generate"
    THEN [kind |-> "generate", status |-> "queued", message |-> "Starting...",
          repo_id |-> "r1"]
    ELSE IF fn = "run_audio_gen"
    THEN [kind |-> "audio", status |-> "queued", message |-> "",
          repo_id |-> NoneStr]
    ELSE [kind |-> "ingest", status |-> "queued", message |-> "Starting...",
          repo_id |-> id]

\* The statuses ingest_repo reports through progress_callback,
\* services/ingestion.py:50,73,107,144
ProgressStatuses == {"cloning", "scanning", "processing"}

\* TTLDict.set, state.py:54-66: dictionary and list operations under a
\* lock, nothing in it raises
TTLDictSetMayRaise == TRUE
TTLDictSetRaises == FALSE

\* db_async.sync_update_job, db_async.py:569-571, and database.update_job
\* in routes/generate.py: both are db.update_job, the SQLite backend
TaskUsesPostgres == FALSE

\* db_async.create_job / get_job, db_async.py:187-202: the configured backend
RoutesUsePostgres == use_postgres

TaskInit ==
    /\ configured = FALSE
    /\ use_postgres = FALSE
    /\ tk_fn = [j \in CreatedIds |-> "none"]
    /\ tk_pc = [j \in CreatedIds |-> "none"]
    /\ tk_failed = [j \in CreatedIds |-> FALSE]
    /\ tk_escaped = [j \in CreatedIds |-> FALSE]
    /\ tk_written = [j \in CreatedIds |-> NoneStr]

\* import db_async, db_async.py:18:
\* _USE_POSTGRES = bool(os.environ.get("DATABASE_URL"))
ImportDbAsync(url_set) ==
    /\ ~configured
    /\ configured' = TRUE
    /\ use_postgres' = url_set
    /\ UNCHANGED <<tk_fn, tk_pc, tk_failed, tk_escaped, tk_written>>
    /\ UNCHANGED store_vars

\* An update_job call by the task of job j: it raises, or the UPDATE runs
\* on the table the task writes to and the call returns
TaskWrite(j, st, msg, res, raised) ==
    LET u == [status |-> st, message |-> msg, result |-> res] IN
    /\ IF raised THEN UNCHANGED <<sq_jobs, pg_jobs>>
       ELSE IF TaskUsesPostgres
       THEN /\ pg_jobs' = update_job(pg_jobs, j, u, db_now)
            /\ UNCHANGED sq_jobs
       ELSE /\ sq_jobs' = update_job(sq_jobs, j, u, db_now)
            /\ UNCHANGED pg_jobs
    /\ tk_written' = IF raised THEN tk_written
                     ELSE [tk_written EXCEPT ![j] = st]
    /\ got' = <<>>
    /\ UNCHANGED db_now

\* The task goes on to pc, or to its except clause when the step raised
TaskGoes(j, pc_next, raised) ==
    /\ tk_pc' = [tk_pc EXCEPT ![j] = IF raised THEN "handler" ELSE pc_next]
    /\ tk_failed' = [tk_failed EXCEPT ![j] = @ \/ raised]
    /\ UNCHANGED <<configured, use_postgres, tk_fn, tk_escaped>>

\* The task ends, the exception of the step (if it raised) leaving the
\* task function for JobQueue._wrap to log
TaskLeaves(j, raised) ==
    /\ tk_pc' = [tk_pc EXCEPT ![j] = "ended"]
    /\ tk_failed' = [tk_failed EXCEPT ![j] = @ \/ raised]
    /\ tk_escaped' = [tk_escaped EXCEPT ![j] = raised]
    /\ UNCHANGED <<configured, use_postgres, tk_fn>>

\* The route of fn: await db_async.create_job(...), then queue.submit(...)
\* hands the task over (routes/generate.py:72-75, routes/audio.py:50-54,
\* routes/repo.py:234-236)
RouteCreate(j, fn) ==
    /\ configured
    /\ tk_pc[j] = "none"
    /\ IF RoutesUsePostgres
       THEN /\ pg_jobs' = pg_create_job(pg_jobs, j, CreateCallOf(fn, j), db_now)
            /\ UNCHANGED sq_jobs
       ELSE /\ sq_jobs' = sq_create_job(sq_jobs, j, CreateCallOf(fn, j), db_now)
            /\ UNCHANGED pg_jobs
    /\ got' = <<>>
    /\ tk_fn' = [tk_fn EXCEPT ![j] = fn]
    /\ tk_pc' = [tk_pc EXCEPT ![j] = "queued"]
    /\ UNCHANGED <<db_now, configured, use_postgres, tk_failed, tk_escaped,
                   tk_written>>

\* The polling endpoint: await db_async.get_job(job_id),
\* routes/generate.py:86-90, routes/audio.py:71, routes/repo.py:308
PollJob(id) ==
    /\ configured
    /\ StoreGet(id)
    /\ UNCHANGED task_vars

\* What the polling endpoint was given
Polled == IF RoutesUsePostgres THEN got[3] ELSE got[2]

\* The table the routes and the polling endpoints use
Authoritative == IF RoutesUsePostgres THEN pg_jobs ELSE sq_jobs

\* run_generate, lines 33-36: the repo is looked up (get_repo_with_fallback
\* catches its own errors, state.py:169-206); not ready: the record is
\* marked and the task returns, outside the try block
GenRepoNotReady(j, raised) ==
    /\ tk_fn[j] = "run_generate" /\ tk_pc[j] = "queued"
    /\ TaskWrite(j, "error", "Repo not ready", NoneStr, raised)
    /\ TaskLeaves(j, raised)

\* run_generate, lines 37-44: an unknown kind is marked and the task
\* returns, inside the try block
GenUnknownKind(j, raised) ==
    /\ tk_fn[j] = "run_generate" /\ tk_pc[j] = "queued"
    /\ TaskWrite(j, "error", "Unknown kind", NoneStr, raised)
    /\ TaskGoes(j, "ended", raised)

\* run_generate, line 51
GenWriteGenerating(j, raised) ==
    /\ tk_fn[j] = "run_generate" /\ tk_pc[j] = "queued"
    /\ TaskWrite(j, "generating", "Generating", NoneStr, raised)
    /\ TaskGoes(j, "g_llm", raised)

\* run_generate, line 52: call_llm returns or raises
GenCallLlm(j, raised) ==
    /\ tk_pc[j] = "g_llm"
    /\ TaskGoes(j, "g_done", raised)
    /\ UNCHANGED <<store_vars, tk_written>>

\* run_generate, line 53
GenWriteDone(j, raised) ==
    /\ tk_pc[j] = "g_done"
    /\ TaskWrite(j, "done", "Done", "out", raised)
    /\ TaskGoes(j, "ended", raised)

\* run_audio_gen, line 27, before the try block
AudioWriteGenerating(j, raised) ==
    /\ tk_fn[j] = "run_audio_gen" /\ tk_pc[j] = "queued"
    /\ TaskWrite(j, "generating", NoneStr, NoneStr, raised)
    /\ IF raised THEN TaskLeaves(j, raised)
       ELSE /\ tk_pc' = [tk_pc EXCEPT ![j] = "a_gen"]
            /\ UNCHANGED <<configured, use_postgres, tk_fn, tk_failed,
                           tk_escaped>>

\* run_audio_gen, line 29: generate_podcast_audio returns or raises
AudioGenerate(j, raised) ==
    /\ tk_pc[j] = "a_gen"
    /\ TaskGoes(j, "a_done", raised)
    /\ UNCHANGED <<store_vars, tk_written>>

\* run_audio_gen, line 30
AudioWriteDone(j, raised) ==
    /\ tk_pc[j] = "a_done"
    /\ TaskWrite(j, "done", NoneStr, "out", raised)
    /\ TaskGoes(j, "a_set", raised)

\* run_audio_gen, line 31: state.audio_jobs.set(...)
AudioStateSet(j, raised) ==
    /\ tk_pc[j] = "a_set"
    /\ raised => TTLDictSetRaises
    /\ TaskGoes(j, "ended", raised)
    /\ UNCHANGED <<store_vars, tk_written>>

\* run_ingest, lines 70-76: ingest_repo reports a status through _progress,
\* which swallows what the write raises
IngestProgress(j, st, raised) ==
    /\ tk_fn[j] = "run_ingest" /\ tk_pc[j] \in {"queued", "i_ingest"}
    /\ TaskWrite(j, st, "progress", NoneStr, raised)
    /\ TaskGoes(j, "i_ingest", FALSE)

\* run_ingest, line 76: ingest_repo returns or raises
IngestRepoEnds(j, raised) ==
    /\ tk_fn[j] = "run_ingest" /\ tk_pc[j] \in {"queued", "i_ingest"}
    /\ TaskGoes(j, "i_proc", raised)
    /\ UNCHANGED <<store_vars, tk_written>>

\* run_ingest, line 77
IngestWriteProcessing(j, raised) ==
    /\ tk_pc[j] = "i_proc"
    /\ TaskWrite(j, "processing", "Building summary", NoneStr, raised)
    /\ TaskGoes(j, "i_cache", raised)

\* run_ingest, lines 78-91: repo_to_text, state.repos.set,
\* db_async.sync_cache_repo_to_db
IngestCache(j, raised) ==
    /\ tk_pc[j] = "i_cache"
    /\ TaskGoes(j, "i_ready", raised)
    /\ UNCHANGED <<store_vars, tk_written>>

\* run_ingest, lines 92-93
IngestWriteReady(j, raised) ==
    /\ tk_pc[j] = "i_ready"
    /\ TaskWrite(j, "ready", "Ready", "out", raised)
    /\ TaskGoes(j, "ended", raised)

\* The except clause of the three task functions (routes/generate.py:54-56,
\* routes/audio.py:32-34, routes/repo.py:94-96): update_job(status="error",
\* message=str(e)); what this call raises leaves the task function
Handler(j, raised) ==
    /\ tk_pc[j] = "handler"
    /\ TaskWrite(j, "error", ExcMessage, NoneStr, raised)
    /\ TaskLeaves(j, raised)

\* ------------------------------------------------------------ shutdown_pools

\* The executor behind the JobQueue once shutdown_pools (concurrency.py:
\* 199-202) has run: ThreadPoolExecutor.submit raises RuntimeError ("cannot
\* schedule new futures after shutdown"), while with shutdown(wait=False)
\* the work items already handed over are still run by the worker threads.
VARIABLES
    pool_shutdown,  \* the executor has been shut down
    refusals        \* number of self._pool.submit calls that raised

sd_vars == <<pool_shutdown, refusals>>

SdInit ==
    /\ pool_shutdown = FALSE
    /\ refusals = 0

\* shutdown_pools, lines 199-202
ShutdownPools ==
    /\ ~pool_shutdown
    /\ pool_shutdown' = TRUE
    /\ UNCHANGED refusals

\* JobQueue.submit, lines 112-131, with the executor as it is: after the
\* shutdown the call of line 123 raises, line 122 having run; the with
\* block releases the lock and the RuntimeError leaves submit
SubmitExec(j) ==
    IF pool_shutdown /\ UtilBelowThreshold(active_count, max_workers)
    THEN /\ j = next_job + 1
         /\ next_job' = j
         /\ active_count' = active_count + 1
         /\ pc' = [pc EXCEPT ![j] = "refused"]
         /\ submit_ret' = [submit_ret EXCEPT ![j] = <<"RuntimeError", None>>]
         /\ refusals' = refusals + 1
         /\ UNCHANGED <<max_workers, max_queue_depth, queue, pool_q,
                        completions, failure_logged, escaped, dispatched,
                        pool_shutdown>>
    ELSE Submit(j) /\ UNCHANGED sd_vars

\* _on_complete, lines 142-149, with the executor as it is: after the
\* shutdown the call of line 149 raises, lines 144-148 having run; the
\* RuntimeError leaves the finally clause of _wrap on the worker thread
OnCompleteExec(j) ==
    IF pool_shutdown /\ QueueNonEmpty(queue)
    THEN /\ pc[j] = "finally"
         /\ completions' = [completions EXCEPT ![j] = @ + 1]
         /\ active_count' = ActiveAfterComplete(active_count, TRUE)
         /\ queue' = PopItem(queue)[2]
         /\ pc' = [pc EXCEPT ![j] = "done", ![PopItem(queue)[1]] = "refused"]
         /\ escaped' = escaped \cup {j}
         /\ refusals' = refusals + 1
         /\ UNCHANGED <<max_workers, max_queue_depth, pool_q, submit_ret,
                        failure_logged, dispatched, next_job, pool_shutdown>>
    ELSE OnComplete(j) /\ UNCHANGED sd_vars

\* ------------------------------------------------------------- sse_semaphore

\* sse_semaphore (concurrency.py:27-28) and the event_stream generators of
\* generate_stream and chat_stream (routes/generate.py:155-203, 270-283),
\* which run on the event loop: each step between two awaits is atomic.
\* "async with sse_semaphore" takes one unit on entry, waiting while none
\* is left, and gives it back when the block is left, whichever way.
VARIABLES
    sem_value,   \* asyncio.Semaphore._value
    sse_pc,      \* stream -> "new" | "waiting" | "inside" | "finally" | "done"
    sse_end,     \* stream -> how its generator left the async with block
    sse_acq,     \* stream -> number of times it took a unit
    sse_rel      \* stream -> number of times it gave a unit back

sse_vars == <<sem_value, sse_pc, sse_end, sse_acq, sse_rel>>

\* The streaming responses of one run
Streams == 1..MaxStreams

\* How a generator leaves the block: it runs to its end, the client goes
\* away (the generator is closed or its task cancelled at a yield), or the
\* upstream call raises
Endings == {"normal", "disconnect", "exception"}

\* Semaphore.locked(): no unit left
SemNeverLocked(v) == FALSE
SemLocked(v) == v = 0

SseInit ==
    /\ sem_value = MaxSse
    /\ sse_pc = [s \in Streams |-> "new"]
    /\ sse_end = [s \in Streams |-> "none"]
    /\ sse_acq = [s \in Streams |-> 0]
    /\ sse_rel = [s \in Streams |-> 0]

\* StreamingResponse starts to iterate event_stream(), which reaches
\* "async with sse_semaphore", routes/generate.py:156-157, 271-272
StreamOpens(s) ==
    /\ sse_pc[s] = "new"
    /\ sse_pc' = [sse_pc EXCEPT ![s] = "waiting"]
    /\ UNCHANGED <<sem_value, sse_end, sse_acq, sse_rel>>

\* Semaphore.acquire returns: a unit was left, or was given back
SemAcquire(s) ==
    /\ sse_pc[s] = "waiting"
    /\ ~SemLocked(sem_value)
    /\ sem_value' = sem_value - 1
    /\ sse_pc' = [sse_pc EXCEPT ![s] = "inside"]
    /\ sse_acq' = [sse_acq EXCEPT ![s] = @ + 1]
    /\ UNCHANGED <<sse_end, sse_rel>>

\* The client goes away while the generator waits for a unit: acquire is
\* cancelled, the block is never entered, the finally clause runs
WaitCancelled(s) ==
    /\ sse_pc[s] = "waiting"
    /\ sse_pc' = [sse_pc EXCEPT ![s] = "finally"]
    /\ sse_end' = [sse_end EXCEPT ![s] = "cancelled"]
    /\ UNCHANGED <<sem_value, sse_acq, sse_rel>>

\* The block is left: __aexit__ calls Semaphore.release, then control goes
\* to the except clause (an Exception) or straight to the finally clause
StreamLeaves(s, how) ==
    /\ sse_pc[s] = "inside"
    /\ sem_value' = sem_value + 1
    /\ sse_rel' = [sse_rel EXCEPT ![s] = @ + 1]
    /\ sse_pc' = [sse_pc EXCEPT ![s] = "finally"]
    /\ sse_end' = [sse_end EXCEPT ![s] = how]
    /\ UNCHANGED sse_acq

\* finally: sse_ctx.release(), routes/generate.py:199-200, 281-282, and the
\* generator is through
StreamFinally(s) ==
    /\ sse_pc[s] = "finally"
    /\ sse_pc' = [sse_pc EXCEPT ![s] = "done"]
    /\ UNCHANGED <<sem_value, sse_end, sse_acq, sse_rel>>

\* ------------------------------------------------------ the three job queues

\* ingest_queue, generate_queue and audio_queue (concurrency.py:167-170) by
\* their counts: what submit and _on_complete decide on is _active_count
\* and len(_queue), whichever task is concerned.
VARIABLES
    pool_workers,   \* per queue: JobQueue._max_workers
    pool_active,    \* per queue: JobQueue._active_count
    pool_queued     \* per queue: len(JobQueue._queue)

pool_vars == <<pool_workers, pool_active, pool_queued>>

Pools == {"ingest", "generate", "audio"}

\* concurrency.py:19-21, the values taken when the environment sets none
INGEST_WORKERS == 8
GENERATE_WORKERS == 12
AUDIO_WORKERS == 4

DefaultWorkers ==
    [p \in Pools |-> IF p = "ingest" THEN INGEST_WORKERS
                     ELSE IF p = "generate" THEN GENERATE_WORKERS
                     ELSE AUDIO_WORKERS]

\* An environment that sets the three variables to 5
FiveWorkers == [p \in Pools |-> 5]

PoolInit ==
    /\ pool_workers \in {DefaultWorkers, FiveWorkers}
    /\ pool_active = [p \in Pools |-> 0]
    /\ pool_queued = [p \in Pools |-> 0]

\* JobQueue.submit, lines 112-131, on the counts of queue p with
\* MAX_QUEUE_DEPTH scaled to depth
PoolSubmit(p, depth) ==
    /\ IF UtilBelowThreshold(pool_active[p], pool_workers[p])
       THEN /\ pool_active' = [pool_active EXCEPT ![p] = @ + 1]
            /\ UNCHANGED pool_queued
       ELSE IF pool_queued[p] < depth
       THEN /\ pool_queued' = [pool_queued EXCEPT ![p] = @ + 1]
            /\ UNCHANGED pool_active
       ELSE UNCHANGED <<pool_active, pool_queued>>
    /\ UNCHANGED pool_workers

\* The tasks of queue p that are with the executor or running: so many
\* _on_complete calls are still to come
PoolInFlight(p) == pool_active[p]

\* JobQueue._on_complete, lines 142-149, run by a task of queue p that ends
PoolComplete(p) ==
    /\ PoolInFlight(p) > 0
    /\ pool_active' =
          [pool_active EXCEPT ![p] = ActiveAfterComplete(@, pool_queued[p] > 0)]
    /\ pool_queued' =
          [pool_queued EXCEPT ![p] = IF @ > 0 THEN @ - 1 ELSE @]
    /\ UNCHANGED pool_workers

\* JobQueue.cancel, lines 159-164, of an id that is in the queue
PoolCancel(p) ==
    /\ pool_queued[p] > 0
    /\ pool_queued' = [pool_queued EXCEPT ![p] = @ - 1]
    /\ UNCHANGED <<pool_workers, pool_active>>

\* -------------------------------------------- submit with a job_id seen before

\* JobQueue._queue is an OrderedDict keyed by job_id and submit does not
\* look whether the key is there (line 127).  Here the k-th submit call
\* carries a job_id of the caller's choice, and a queue slot is written as
\* the submit call whose task it holds.
VARIABLES
    job_key     \* per submit call: the job_id it was given ("none": not made)

dup_vars == <<job_key>>

\* job_ids, two of them so that a call can repeat one or not
Keys == {"k1", "k2"}

DupInit == job_key = [j \in Jobs |-> "none"]

\* The slots of q whose key is k (at most one: keys of a dict)
SlotsOf(q, keys, k) == {i \in 1..Len(q) : keys[q[i]] = k}

\* self._queue[job_id] = (fn, args, kwargs), line 127: a new key gets a
\* slot at the end, a key that is there keeps its slot and the slot's
\* value is replaced
KeyPut(q, keys, j, k) ==
    IF SlotsOf(q, keys, k) = {} THEN Append(q, j)
    ELSE [i \in 1..Len(q) |-> IF keys[q[i]] = k THEN j ELSE q[i]]

\* get_position, lines 151-157, for the key k in the queue q
KeyPosition(q, keys, k) ==
    IF SlotsOf(q, keys, k) = {} THEN None
    ELSE CHOOSE i \in SlotsOf(q, keys, k) : \A n \in SlotsOf(q, keys, k) : i <= n

\* The submit calls whose task left the queue by having its slot's value
\* replaced
ReplacedBy(q, keys, k) == {q[i] : i \in SlotsOf(q, keys, k)}

\* JobQueue.submit(job_id = k, ...), lines 112-131, as the j-th submit call
SubmitKey(j, k) ==
    /\ j = next_job + 1
    /\ next_job' = j
    /\ job_key' = [job_key EXCEPT ![j] = k]
    /\ IF UtilBelowThreshold(active_count, max_workers)
       THEN /\ active_count' = active_count + 1
            /\ pool_q' = Append(pool_q, j)
            /\ dispatched' = Append(dispatched, j)
            /\ pc' = [pc EXCEPT ![j] = "pending"]
            /\ submit_ret' = [submit_ret EXCEPT ![j] = <<"running", None>>]
            /\ UNCHANGED queue
       ELSE IF QueueHasRoom(queue, max_queue_depth)
       THEN /\ queue' = KeyPut(queue, job_key, j, k)
            /\ pc' = [x \in Jobs |->
                        IF x = j THEN "queued"
                        ELSE IF x \in ReplacedBy(queue, job_key, k) THEN "replaced"
                        ELSE pc[x]]
            /\ submit_ret' = [submit_ret EXCEPT ![j] = <<"queued", QueuedPosition(queue')>>]
            /\ UNCHANGED <<active_count, pool_q, dispatched>>
       ELSE /\ pc' = [pc EXCEPT ![j] = "rejected"]
            /\ submit_ret' = [submit_ret EXCEPT ![j] = <<"rejected", None>>]
            /\ UNCHANGED <<active_count, queue, pool_q, dispatched>>
    /\ UNCHANGED <<max_workers, max_queue_depth, completions, failure_logged, escaped>>

\* ------------------------------------------------------ TTLDict (state.py)

\* One TTLDict with max_size > 0 (state.repos, state.py:107).  Every method
\* runs its body under self._lock, so a call is one atomic action.  Stored
\* values are opaque to the class; one value stands for them.
VARIABLES
    td_data,          \* TTLDict._data: a function on the keys present
    td_expires,       \* TTLDict._expires: key -> instant of expiry
    td_access_order,  \* TTLDict._access_order
    td_now,           \* time.time(), in whole seconds
    td_ret,           \* what the last get returned, until the next call:
                      \* <<>> or <<key, value>> (value NoneStr for None)
    td_recency,       \* the keys used so far, least recently used first (a
                      \* use is a set or a get that returned the value)
    td_evicted        \* the key the last set evicted ("none": it evicted
                      \* nothing, or the last call was no set)

ttl_vars == <<td_data, td_expires, td_access_order, td_now, td_ret,
              td_recency, td_evicted>>

\* Keys given to the store, more than it holds
TdKeys == {"a", "b", "c", "d"}

\* The ttl argument of set: None (the default applies) or a second
Ttls == {None, 1}

\* list.remove(x): the first occurrence leaves
ListRemove(s, x) ==
    IF \E i \in 1..Len(s) : s[i] = x
    THEN LET i == CHOOSE n \in 1..Len(s) :
                      s[n] = x /\ \A m \in 1..(n - 1) : s[m] # x
         IN  SubSeq(s, 1, i - 1) \o SubSeq(s, i + 1, Len(s))
    ELSE s

\* "if key in self._access_order: self._access_order.remove(key)" followed
\* by append(key), lines 42-44 and 64-66
Touch(s, k) == Append(ListRemove(s, k), k)

\* "len(self._data) >= self.max_size", line 57
TdOverfull(n, max_size) == n > max_size
TdFull(n, max_size) == n >= max_size

\* "ttl or self.default_ttl", line 63
EffectiveTtl(ttl) == IF ttl = None THEN DefaultTtl ELSE ttl

\* "self._expires.get(key, float('inf')) > time.time()", line 40
TdAlways(exp, now) == TRUE
TdLive(exp, now) == exp > now

\* __init__, lines 29-36
TtlInit ==
    /\ td_data = <<>>
    /\ td_expires = <<>>
    /\ td_access_order = <<>>
    /\ td_now = 0
    /\ td_ret = <<>>
    /\ td_recency = <<>>
    /\ td_evicted = "none"

\* TTLDict.get, lines 38-52
TdGet(k) ==
    /\ IF k \in DOMAIN td_data
       THEN IF k \notin DOMAIN td_expires \/ TdLive(td_expires[k], td_now)
            THEN /\ td_access_order' = Touch(td_access_order, k)
                 /\ td_ret' = <<k, td_data[k]>>
                 /\ td_recency' = Append(SelectSeq(td_recency, LAMBDA x : x # k), k)
                 /\ UNCHANGED <<td_data, td_expires>>
            ELSE /\ td_data' = DictPop(td_data, k)
                 /\ td_expires' = DictPop(td_expires, k)
                 /\ td_access_order' = ListRemove(td_access_order, k)
                 /\ td_ret' = <<k, NoneStr>>
                 /\ UNCHANGED td_recency
       ELSE /\ td_ret' = <<k, NoneStr>>
            /\ UNCHANGED <<td_data, td_expires, td_access_order, td_recency>>
    /\ td_evicted' = "none"
    /\ UNCHANGED td_now

\* The key a set of k evicts: lines 57-61
EvictKey(k) ==
    IF /\ MaxSize > 0
       /\ k \notin DOMAIN td_data
       /\ TdFull(Cardinality(DOMAIN td_data), MaxSize)
       /\ td_access_order # <<>>
    THEN Head(td_access_order)
    ELSE "none"

\* TTLDict.set, lines 54-66
TdSet(k, ttl) ==
    LET e == EvictKey(k)
        data == IF e = "none" THEN td_data ELSE DictPop(td_data, e)
        expires == IF e = "none" THEN td_expires ELSE DictPop(td_expires, e)
        order == IF e = "none" THEN td_access_order ELSE Tail(td_access_order)
    IN  /\ td_data' = DictSet(data, k, "v")
        /\ td_expires' = DictSet(expires, k, td_now + EffectiveTtl(ttl))
        /\ td_access_order' = Touch(order, k)
        /\ td_evicted' = e
        /\ td_recency' = Append(SelectSeq(td_recency, LAMBDA x : x # k), k)
        /\ td_ret' = <<>>
        /\ UNCHANGED td_now

\* TTLDict.delete, lines 68-73
TdDelete(k) ==
    /\ td_data' = DictPop(td_data, k)
    /\ td_expires' = DictPop(td_expires, k)
    /\ td_access_order' = ListRemove(td_access_order, k)
    /\ td_ret' = <<>>
    /\ td_evicted' = "none"
    /\ UNCHANGED <<td_now, td_recency>>

\* The keys cleanup finds expired, line 92
ExpiredKeys == {k \in DOMAIN td_expires : td_expires[k] <= td_now}

\* TTLDict.cleanup, lines 88-98
TdCleanup ==
    /\ td_data' = [k \in DOMAIN td_data \ ExpiredKeys |-> td_data[k]]
    /\ td_expires' = [k \in DOMAIN td_expires \ ExpiredKeys |-> td_expires[k]]
    /\ td_access_order' =
          SelectSeq(td_access_order, LAMBDA x : x \notin ExpiredKeys)
    /\ td_ret' = <<>>
    /\ td_evicted' = "none"
    /\ UNCHANGED <<td_now, td_recency>>

\* A second passes
TdTick ==
    /\ td_now < MaxClock
    /\ td_now' = td_now + 1
    /\ td_ret' = <<>>
    /\ td_evicted' = "none"
    /\ UNCHANGED <<td_data, td_expires, td_access_order, td_recency>>

\* ------------------------------------- call_llm_stream (services/llm.py)

\* call_llm_stream (lines 142-183) and call_llm_stream_messages (lines
\* 186-222) are generators around the loop of call_llm: the request is made
\* with stream=True and the chunks of the response are yielded to the
\* consumer from inside the try block (lines 165-168 and 206-208), so an
\* error raised while the response is being read is handled like an error
\* of the request itself.  A chunk is written <<attempt, n>>: the n-th
\* chunk of the response to the request of that attempt.
VARIABLES
    str_yielded,    \* per thread: chunks yielded from the response being read
    str_delivered   \* per thread: the chunks its consumer has received from
                    \* the call, in order

stream_vars == <<str_yielded, str_delivered>>

\* The thread that consumes a stream
StreamThreads == {1}

StreamInit ==
    /\ str_yielded = [t \in Threads |-> 0]
    /\ str_delivered = [t \in Threads |-> <<>>]

\* The consumer's first next(): the generator body starts, lines 144-148
StreamCallStart(t) ==
    /\ CallStart(t)
    /\ str_yielded' = [str_yielded EXCEPT ![t] = 0]
    /\ str_delivered' = [str_delivered EXCEPT ![t] = <<>>]

\* client.chat.completions.create(..., stream=True), lines 153-163;
\* chunk_count = 0
StreamRequest(t) ==
    /\ Request(t)
    /\ str_yielded' = [str_yielded EXCEPT ![t] = 0]
    /\ UNCHANGED str_delivered

\* "for chunk in stream: ... yield chunk.choices[0].delta.content", lines
\* 165-168: the consumer receives the next chunk of the response
StreamChunk(t) ==
    /\ call_pc[t] = "inflight"
    /\ str_yielded[t] < MaxChunks
    /\ str_yielded' = [str_yielded EXCEPT ![t] = @ + 1]
    /\ str_delivered' =
          [str_delivered EXCEPT ![t] = Append(@, <<attempt[t], str_yielded[t] + 1>>)]
    /\ UNCHANGED llm_vars

\* The response ends, lines 169-171: record_success and return
StreamEnds(t) ==
    /\ str_yielded[t] >= 1
    /\ RequestSucceeds(t)
    /\ UNCHANGED stream_vars

\* create() or the reading of the response raises exc, lines 172-180
StreamFails(t, exc) ==
    /\ RequestFails(t, exc)
    /\ UNCHANGED stream_vars

\* --------------------- generate_stream and chat_stream (routes/generate.py)

\* The k-th streaming request that reaches acquire_sse (lines 131, 226)
\* makes context k of the table _ip_sse_counts.
VARIABLES
    sr_pc       \* per request: where its handler or its event_stream
                \* generator stands, or how it ended

sroute_vars == <<sr_pc>>

\* What the code between acquire_sse and the return of the
\* StreamingResponse can do: go through; answer an error after releasing
\* (unknown kind, line 141; short balance, line 236); raise (get_cached,
\* line 153, reads SQLite; get_current_user and get_token_balance, lines
\* 230-234, read the database), no try enclosing these lines
SetupOutcomes == {"ok", "error_response", "raises"}

\* How a started event_stream generator comes to its finally clause: the
\* wait for sse_semaphore is cancelled, or one of Endings inside the block
BodyEndings == Endings \cup {"cancelled"}

\* The request is over: nothing of it will run any more
SrOver == {"r429", "r4xx", "r500", "abandoned", "closed"}

SrouteInit == sr_pc = [c \in Ctxs |-> "none"]

\* acquire_sse, lines 130-133 and 225-228; None is answered with 429
SseRouteAcquire(c, ip) ==
    /\ Acquire(c, ip)
    /\ sr_pc' = [sr_pc EXCEPT ![c] = IF ctx_ret'[c] = "True" THEN "setup" ELSE "r429"]

\* lines 135-153 and 230-268
SseRouteSetup(c, outcome) ==
    /\ sr_pc[c] = "setup"
    /\ sr_pc' = [sr_pc EXCEPT ![c] =
                    CASE outcome = "ok" -> "response"
                      [] outcome = "error_response" -> "release4xx"
                      [] outcome = "raises" -> "r500"]
    /\ UNCHANGED ip_vars

\* sse_ctx.release() before the error response, lines 141 and 236: the
\* unlocked test
SseRouteReleaseCheck(c) ==
    /\ sr_pc[c] = "release4xx"
    /\ ReleaseCheck(c, 1)
    /\ sr_pc' = [sr_pc EXCEPT ![c] = IF ctx_acquired[c] THEN @ ELSE "r4xx"]

\* the locked block of that release, then the response
SseRouteReleaseLocked(c) ==
    /\ sr_pc[c] = "release4xx"
    /\ ReleaseLocked(c, 1)
    /\ sr_pc' = [sr_pc EXCEPT ![c] = "r4xx"]

\* The StreamingResponse (lines 205-206, 285-286) begins to iterate
\* event_stream(): the generator body starts
SseBodyStarts(c) ==
    /\ sr_pc[c] = "response"
    /\ sr_pc' = [sr_pc EXCEPT ![c] = "body"]
    /\ UNCHANGED ip_vars

\* The client is gone before the first chunk is asked for: the response is
\* dropped and the generator object closed without its body having started,
\* so none of its code runs
SseNeverStarted(c) ==
    /\ sr_pc[c] = "response"
    /\ sr_pc' = [sr_pc EXCEPT ![c] = "abandoned"]
    /\ UNCHANGED ip_vars

\* The generator comes to its finally clause, lines 156-202 and 271-282
SseBodyLeaves(c, how) ==
    /\ sr_pc[c] = "body"
    /\ how \in BodyEndings
    /\ sr_pc' = [sr_pc EXCEPT ![c] = "finally"]
    /\ UNCHANGED ip_vars

\* finally: sse_ctx.release(), lines 202-203 and 282-283: the unlocked test
SseFinallyReleaseCheck(c) ==
    /\ sr_pc[c] = "finally"
    /\ ReleaseCheck(c, 2)
    /\ sr_pc' = [sr_pc EXCEPT ![c] = IF ctx_acquired[c] THEN @ ELSE "closed"]

\* the locked block of that release; the generator is through
SseFinallyReleaseLocked(c) ==
    /\ sr_pc[c] = "finally"
    /\ ReleaseLocked(c, 2)
    /\ sr_pc' = [sr_pc EXCEPT ![c] = "closed"]

\* ------------------------------------ admission of jobs, and a process restart

\* The routes that admit a job (generate, routes/generate.py:59-83;
\* podcast_audio, routes/audio.py:38-62; add_repo and upload_folder,
\* routes/repo.py:199-313) write its record with create_job and hand its
\* task to a JobQueue; the task reports through update_job.  The JobQueue
\* objects and the counter tables are module globals of concurrency.py
\* (lines 31-32 and 167-170), built when the process imports the module;
\* job_status is a table of the database file.  Job ids are the record ids
\* here.  The SQLite backend holds the records, and its statements take
\* effect.
VARIABLES
    restarts    \* number of times the server process has been started again

adm_vars == <<restarts>>

AdmInit == restarts = 0

Admitted == 1..MaxAdmitted

\* The first status a task writes once it runs: routes/generate.py:52,
\* routes/audio.py:27, services/ingestion.py:50 (through run_ingest's
\* progress callback)
FirstStatus(kind) ==
    CASE kind = "generate" -> "generating"
      [] kind = "audio" -> "generating"
      [] kind = "ingest" -> "cloning"

\* The statuses a task leaves behind when it returns
FinalStatuses == {"done", "error"}

\* The row of job j, as <<row>>, or <<>>
RecordOf(j) == get_job(sq_jobs, j)

\* The status of job j's record, "absent" without a record
StatusOf(j) == IF RecordOf(j) = <<>> THEN "absent" ELSE RecordOf(j)[1].status

\* update_job(job_id, status=s, message=...)
StatusUpdate(s) == [status |-> s, message |-> "50%", result |-> NoneStr]

\* A route admits job j for task function fn: create_job, then submit; on
\* "rejected" the route answers 503 (routes/generate.py:73-77,
\* routes/audio.py:51-56, routes/repo.py:235-248, 283-296)
Admit(j, fn) ==
    /\ j \in Admitted
    /\ Submit(j)
    /\ sq_jobs' = sq_create_job(sq_jobs, j, CreateCallOf(fn, j), db_now)
    /\ UNCHANGED <<pg_jobs, db_now, got>>

\* A worker takes the job's task
AdmWorkerStart(j) ==
    /\ WorkerStart(j)
    /\ UNCHANGED store_vars

\* The task's first update_job call
AdmFirstUpdate(j) ==
    /\ pc[j] = "running"
    /\ StatusOf(j) = "queued"
    /\ sq_jobs' = update_job(sq_jobs, j,
                       StatusUpdate(FirstStatus(RecordOf(j)[1].kind)), db_now)
    /\ UNCHANGED <<pg_jobs, db_now, got>>
    /\ UNCHANGED vars

\* The task's last update_job call and its return (routes/generate.py:36,
\* 44, 54, 56-57)
AdmTaskEnds(j, final) ==
    /\ FnReturns(j)
    /\ sq_jobs' = update_job(sq_jobs, j, StatusUpdate(final), db_now)
    /\ UNCHANGED <<pg_jobs, db_now, got>>

\* _on_complete of the job's _wrap
AdmOnComplete(j) ==
    /\ OnComplete(j)
    /\ UNCHANGED store_vars

\* JobQueue.__init__, concurrency.py:88-94, when the module is imported by
\* the new process: `self._queue = OrderedDict()`, `self._active_count = 0`
QueueSurvivesRestart == queue
QueueAfterRestart == <<>>
ActiveAfterRestart == 0

\* Where a job of the old process stands once that process is gone
AfterRestart(p) ==
    CASE p = "queued" -> "lost_queued"
      [] p = "pending" -> "lost_pending"
      [] p \in {"running", "finally"} -> "lost_running"
      [] OTHER -> p

\* The server process ends and a new one starts: every module global is
\* built anew (concurrency.py:31-32, 88-94, 167-170), the threads and
\* contexts of the old process are gone, the database file stays
Restart ==
    /\ restarts < MaxRestarts
    /\ restarts' = restarts + 1
    /\ active_count' = ActiveAfterRestart
    /\ queue' = QueueAfterRestart
    /\ pool_q' = <<>>
    /\ pc' = [j \in Jobs |-> AfterRestart(pc[j])]
    /\ ip_counts' = <<>>
    /\ ctx_ip' = [c \in Ctxs |-> "none"]
    /\ ctx_ret' = [c \in Ctxs |-> "none"]
    /\ ctx_acquired' = [c \in Ctxs |-> FALSE]
    /\ rel_pc' = [c \in Ctxs |-> [k \in Releasers |-> "idle"]]
    /\ releases_done' = [c \in Ctxs |-> 0]
    /\ next_ctx' = 0
    /\ UNCHANGED <<max_workers, max_queue_depth, submit_ret, completions,
                   failure_logged, escaped, dispatched, next_job, ip_max>>
    /\ UNCHANGED store_vars

\* db.cleanup_old_jobs, db.py:657-660:
\* DELETE FROM job_status WHERE created_at < cutoff
cleanup_old_jobs(tbl, now) == {r \in tbl : ~(r.created_at < now - MaxAge)}

\* One round of state.cleanup_stores, state.py:314-328
Cleanup ==
    /\ sq_jobs' = cleanup_old_jobs(sq_jobs, db_now)
    /\ UNCHANGED <<pg_jobs, db_now, got>>

\* A second passes on the database's clock
AdmTick ==
    /\ db_now < MaxUptime
    /\ db_now' = db_now + 1
    /\ UNCHANGED <<sq_jobs, pg_jobs, got>>

\* ------------------------------------- the v1 API (routes/api_v1.py:160-204)

\* api_generate keeps the job's status in state.jobs, a TTLDict of the
\* process (state.py:108), hands run_generate to generate_queue, and
\* api_get_job answers from state.jobs.
VARIABLES
    mem_jobs,   \* state.jobs: a function on the job ids present
    polled      \* per job: the last api_get_job answer, with whether the
                \* job's task had finished when it was given

v1_vars == <<mem_jobs, polled>>

V1Init ==
    /\ mem_jobs = <<>>
    /\ polled = [j \in Jobs |-> <<>>]

\* The task function has returned
TaskFinished(j) == pc[j] \in {"finally", "done"}

\* state.jobs.get(job_id), then 404 for None and the entry otherwise,
\* lines 201-204
JobAnswer(j) == IF j \in DOMAIN mem_jobs THEN mem_jobs[j].status ELSE "404"

\* api_generate from the entry in state.jobs on, lines 181-193; no
\* create_job call is made
ApiGenerate(j) ==
    /\ j \in Admitted
    /\ Submit(j)
    /\ mem_jobs' = DictSet(mem_jobs, j,
                       [status |-> "queued", message |-> "Starting...",
                        result |-> NoneStr])
    /\ UNCHANGED polled
    /\ UNCHANGED store_vars

\* api_get_job, lines 196-204
ApiGetJob(j) ==
    /\ j \in 1..next_job
    /\ polled' = [polled EXCEPT ![j] = <<JobAnswer(j), TaskFinished(j)>>]
    /\ UNCHANGED mem_jobs
    /\ UNCHANGED <<vars, store_vars>>

\* The entry's default_ttl of 3600 s has passed: get answers None and
\* cleanup removes the entry (state.py:40-52, 86-97)
JobEntryExpires(j) ==
    /\ j \in DOMAIN mem_jobs
    /\ mem_jobs' = DictPop(mem_jobs, j)
    /\ UNCHANGED polled
    /\ UNCHANGED <<vars, store_vars>>

\* ------------------------------------------------------------ specifications

\* The variables of the components a JobQueue specification does not run
\* The variables of the job store and of the components after it
\* The variables of the components that come after the semaphore
more_vars == <<pool_vars, dup_vars, ttl_vars, stream_vars, sroute_vars,
              adm_vars, v1_vars>>

rest_vars == <<store_vars, retry_vars, task_vars, sd_vars, sse_vars, more_vars>>

idle_vars == <<ip_vars, ar_vars, llm_vars, rest_vars>>

all_vars == <<vars, ip_vars, ar_vars, llm_vars, rest_vars>>

\* The variables of the queue, the limiter, add_repo and the breaker
queue_side == <<vars, ip_vars, ar_vars, llm_vars>>

\* The components a job store specification does not run
not_store == <<queue_side, retry_vars, task_vars, sd_vars, sse_vars, more_vars>>

\* The components a db_retry specification does not run
not_retry == <<queue_side, store_vars, task_vars, sd_vars, sse_vars, more_vars>>

\* The components a background task specification does not run
not_tasks == <<queue_side, retry_vars, sd_vars, sse_vars, more_vars>>

\* The components a shutdown specification does not run
not_queue ==
    <<ip_vars, ar_vars, llm_vars, store_vars, retry_vars, task_vars, sse_vars,
      more_vars>>

\* The components a semaphore specification does not run
not_sse == <<queue_side, store_vars, retry_vars, task_vars, sd_vars, more_vars>>

\* The limiter at rest, no request and no call under way
\* The job store and the components after it at rest
MoreInit ==
    PoolInit /\ pool_workers = DefaultWorkers /\ DupInit /\ TtlInit
    /\ StreamInit /\ SrouteInit /\ AdmInit /\ V1Init

RestInit ==
    StoreInit /\ RetryInit /\ TaskInit /\ SdInit /\ SseInit /\ MoreInit

IpIdle ==
    IpInit /\ ip_max = MAX_INGEST_PER_IP /\ ArInit /\ LlmInit /\ RestInit

Next ==
    \E j \in Jobs :
        \/ Submit(j) /\ UNCHANGED idle_vars
        \/ WorkerStart(j) /\ UNCHANGED idle_vars
        \/ FnReturns(j) /\ UNCHANGED idle_vars
        \/ FnRaises(j) /\ UNCHANGED idle_vars
        \/ OnComplete(j) /\ UNCHANGED idle_vars
        \/ GetPosition(j) /\ UNCHANGED idle_vars
        \/ Cancel(j) /\ UNCHANGED idle_vars

\* The job queue as constructed, the other components at rest
InitQueue == Init /\ IpIdle

Spec == InitQueue /\ [][Next]_all_vars

\* The executor runs a submitted work item once a worker thread is free, a
\* task function that was started ends (the premise of the liveness claims),
\* and the finally clause of _wrap then gets the lock and runs _on_complete.
\* Callers are under no obligation to submit, cancel or poll.
Fairness ==
    \A j \in Jobs :
        /\ WF_vars(WorkerStart(j))
        /\ WF_vars(FnReturns(j) \/ FnRaises(j))
        /\ WF_vars(OnComplete(j))

LiveSpec == InitQueue /\ [][Next]_all_vars /\ Fairness

\* The end-to-end scenario: a pool of two workers with the shipped queue
\* depth, callers that only submit, tasks that finish.
InitE2E == InitQueue /\ max_workers = 2 /\ max_queue_depth = MAX_QUEUE_DEPTH

NextE2E ==
    \E j \in Jobs :
        \/ Submit(j) /\ UNCHANGED idle_vars
        \/ WorkerStart(j) /\ UNCHANGED idle_vars
        \/ FnReturns(j) /\ UNCHANGED idle_vars
        \/ FnRaises(j) /\ UNCHANGED idle_vars
        \/ OnComplete(j) /\ UNCHANGED idle_vars

SpecE2E == InitE2E /\ [][NextE2E]_all_vars /\ Fairness

\* The limiter on its own: callers make contexts for either address and
\* release them, each context being released by one caller at a time (its
\* request handler), while the calls on different contexts interleave.
NextIP ==
    \E c \in Ctxs :
        \/ \E ip \in IPs : Acquire(c, ip) /\ UNCHANGED <<vars, ar_vars, llm_vars, rest_vars>>
        \/ ReleaseCheck(c, 1) /\ UNCHANGED <<vars, ar_vars, llm_vars, rest_vars>>
        \/ ReleaseLocked(c, 1) /\ UNCHANGED <<vars, ar_vars, llm_vars, rest_vars>>

InitIP ==
    /\ Init /\ max_workers = 1 /\ max_queue_depth = MAX_QUEUE_DEPTH
    /\ IpInit /\ ArInit /\ LlmInit /\ RestInit

SpecIP == InitIP /\ [][NextIP]_all_vars

\* add_repo requests against the ingest queue: a pool of one worker and a
\* waiting queue of MaxDepth, so that all three submit outcomes occur
\* within MaxReq requests.
InitAddRepo ==
    /\ Init /\ max_workers = 1 /\ max_queue_depth = MaxDepth
    /\ IpInit /\ ip_max = MAX_INGEST_PER_IP
    /\ ArInit
    /\ LlmInit
    /\ RestInit

NextAddRepo ==
    \E c \in Requests :
        \/ \E ip \in IPs : AddRepoAcquire(c, ip) /\ UNCHANGED <<vars, llm_vars, rest_vars>>
        \/ \E o \in TokenOutcomes : AddRepoTokens(c, o) /\ UNCHANGED <<vars, llm_vars, rest_vars>>
        \/ \E o \in CreateOutcomes : AddRepoCreateJob(c, o) /\ UNCHANGED <<vars, llm_vars, rest_vars>>
        \/ \E j \in Jobs : AddRepoSubmit(c, j) /\ UNCHANGED <<llm_vars, rest_vars>>
        \/ AddRepoReleaseCheck(c) /\ UNCHANGED <<vars, llm_vars, rest_vars>>
        \/ AddRepoReleaseLocked(c) /\ UNCHANGED <<vars, llm_vars, rest_vars>>
        \/ \E j \in Jobs : WorkerStart(j) /\ UNCHANGED idle_vars
        \/ \E r \in BOOLEAN : TaskRunIngestEnds(c, r) /\ UNCHANGED <<vars, llm_vars, rest_vars>>
        \/ TaskReleaseCheck(c) /\ UNCHANGED <<vars, llm_vars, rest_vars>>
        \/ TaskReleaseLocked(c) /\ UNCHANGED <<vars, llm_vars, rest_vars>>
        \/ TaskEnds(c) /\ UNCHANGED <<llm_vars, rest_vars>>
        \/ \E j \in Jobs : OnComplete(j) /\ UNCHANGED idle_vars

SpecAddRepo == InitAddRepo /\ [][NextAddRepo]_all_vars

\* Calls into services/llm.py made by the threads of the pool
Calls ==
    \E t \in Threads :
        \/ CallStart(t) /\ UNCHANGED <<vars, ip_vars, ar_vars, rest_vars>>
        \/ Request(t) /\ UNCHANGED <<vars, ip_vars, ar_vars, rest_vars>>
        \/ RequestSucceeds(t) /\ UNCHANGED <<vars, ip_vars, ar_vars, rest_vars>>
        \/ \E exc \in Errors : RequestFails(t, exc) /\ UNCHANGED <<vars, ip_vars, ar_vars, rest_vars>>
        \/ EndSleep(t) /\ UNCHANGED <<vars, ip_vars, ar_vars, rest_vars>>

\* The clock moves on
Tick == \E d \in 1..COOLDOWN : Advance(d) /\ UNCHANGED <<vars, ip_vars, ar_vars, rest_vars>>

InitLLM == Init /\ max_workers = 1 /\ max_queue_depth = MAX_QUEUE_DEPTH /\ IpIdle

NextLLM == Calls \/ Tick

SpecLLM == InitLLM /\ [][NextLLM]_all_vars

\* The same with callers of get_circuit_stats
NextStats ==
    \/ Calls
    \/ Tick
    \/ \E t \in Threads : Stats(t) /\ UNCHANGED <<vars, ip_vars, ar_vars, rest_vars>>

SpecStats == InitLLM /\ [][NextStats]_all_vars

\* The two job stores given the same create_job, update_job and get_job
\* calls, in any order
NextStore ==
    \/ \E id \in CreatedIds :
        \E c \in CreateCalls : StoreCreate(id, c) /\ UNCHANGED not_store
    \/ \E id \in JobIds :
        \/ \E u \in UpdateCalls : StoreUpdate(id, u) /\ UNCHANGED not_store
        \/ StoreGet(id) /\ UNCHANGED not_store
    \/ StoreTick /\ UNCHANGED not_store

InitStore == Init /\ max_workers = 1 /\ max_queue_depth = MAX_QUEUE_DEPTH /\ IpIdle

SpecStore == InitStore /\ [][NextStore]_all_vars

\* db_retry calls by the threads of the db-async pool and of the workers
NextRetry ==
    \E t \in Threads :
        \/ DbRetryCall(t) /\ UNCHANGED not_retry
        \/ \E o \in FnOutcomes : DbRetryFn(t, o) /\ UNCHANGED not_retry
        \/ DbRetrySleepEnds(t) /\ UNCHANGED not_retry

InitRetry == Init /\ max_workers = 1 /\ max_queue_depth = MAX_QUEUE_DEPTH /\ IpIdle

SpecRetry == InitRetry /\ [][NextRetry]_all_vars

\* Jobs created by the routes, run by the task functions and polled, under
\* either backend
NextTasks ==
    \/ \E b \in BOOLEAN : ImportDbAsync(b) /\ UNCHANGED not_tasks
    \/ \E id \in JobIds : PollJob(id) /\ UNCHANGED not_tasks
    \/ \E j \in CreatedIds :
        \/ \E fn \in TaskFns : RouteCreate(j, fn) /\ UNCHANGED not_tasks
        \/ \E r \in BOOLEAN :
            \/ GenRepoNotReady(j, r) /\ UNCHANGED not_tasks
            \/ GenUnknownKind(j, r) /\ UNCHANGED not_tasks
            \/ GenWriteGenerating(j, r) /\ UNCHANGED not_tasks
            \/ GenCallLlm(j, r) /\ UNCHANGED not_tasks
            \/ GenWriteDone(j, r) /\ UNCHANGED not_tasks
            \/ AudioWriteGenerating(j, r) /\ UNCHANGED not_tasks
            \/ AudioGenerate(j, r) /\ UNCHANGED not_tasks
            \/ AudioWriteDone(j, r) /\ UNCHANGED not_tasks
            \/ AudioStateSet(j, r) /\ UNCHANGED not_tasks
            \/ \E st \in ProgressStatuses :
                  IngestProgress(j, st, r) /\ UNCHANGED not_tasks
            \/ IngestRepoEnds(j, r) /\ UNCHANGED not_tasks
            \/ IngestWriteProcessing(j, r) /\ UNCHANGED not_tasks
            \/ IngestCache(j, r) /\ UNCHANGED not_tasks
            \/ IngestWriteReady(j, r) /\ UNCHANGED not_tasks
            \/ Handler(j, r) /\ UNCHANGED not_tasks

InitTasks == Init /\ max_workers = 1 /\ max_queue_depth = MAX_QUEUE_DEPTH /\ IpIdle

SpecTasks == InitTasks /\ [][NextTasks]_all_vars

\* The job queue of the end-to-end scenario with shutdown_pools called at
\* some point, callers going on to submit and running tasks to complete
NextShutdown ==
    \/ ShutdownPools /\ UNCHANGED <<vars, not_queue>>
    \/ \E j \in Jobs :
        \/ SubmitExec(j) /\ UNCHANGED not_queue
        \/ WorkerStart(j) /\ UNCHANGED <<sd_vars, not_queue>>
        \/ FnReturns(j) /\ UNCHANGED <<sd_vars, not_queue>>
        \/ FnRaises(j) /\ UNCHANGED <<sd_vars, not_queue>>
        \/ OnCompleteExec(j) /\ UNCHANGED not_queue

InitShutdown == InitQueue /\ max_workers = 2 /\ max_queue_depth = MAX_QUEUE_DEPTH

SpecShutdown == InitShutdown /\ [][NextShutdown]_all_vars

\* Streaming responses on the event loop
NextSse ==
    \E s \in Streams :
        \/ StreamOpens(s) /\ UNCHANGED not_sse
        \/ SemAcquire(s) /\ UNCHANGED not_sse
        \/ WaitCancelled(s) /\ UNCHANGED not_sse
        \/ \E how \in Endings : StreamLeaves(s, how) /\ UNCHANGED not_sse
        \/ StreamFinally(s) /\ UNCHANGED not_sse

InitSse == Init /\ max_workers = 1 /\ max_queue_depth = MAX_QUEUE_DEPTH /\ IpIdle

SpecSse == InitSse /\ [][NextSse]_all_vars

\* The queue, the limiter, add_repo and the breaker at rest
QueueSideIdle ==
    /\ Init /\ max_workers = 1 /\ max_queue_depth = MAX_QUEUE_DEPTH
    /\ IpInit /\ ip_max = MAX_INGEST_PER_IP /\ ArInit /\ LlmInit

\* The components from the job store to the semaphore at rest
StoreSideIdle == StoreInit /\ RetryInit /\ TaskInit /\ SdInit /\ SseInit

\* The components a specification of the three queues does not run
not_pools ==
    <<queue_side, store_vars, retry_vars, task_vars, sd_vars, sse_vars, dup_vars,
      ttl_vars, stream_vars, sroute_vars, adm_vars, v1_vars>>

\* The three job queues under submit, completion and cancel calls, with
\* the shipped pool sizes or with pools of five
NextPools ==
    \E p \in Pools :
        \/ PoolSubmit(p, MaxQueued) /\ UNCHANGED not_pools
        \/ PoolComplete(p) /\ UNCHANGED not_pools
        \/ PoolCancel(p) /\ UNCHANGED not_pools

InitPools ==
    QueueSideIdle /\ StoreSideIdle /\ PoolInit /\ DupInit /\ TtlInit /\ StreamInit
    /\ SrouteInit /\ AdmInit /\ V1Init

SpecPools == InitPools /\ [][NextPools]_all_vars

\* The limiter with release() callable from two threads at once on the
\* same context (the request handler and the pool's worker both hold a
\* reference to it, routes/repo.py:230-246), for the first MaxRaceCtx
\* contexts of a run
NextIPRace ==
    \E c \in 1..MaxRaceCtx :
        \/ \E ip \in IPs : Acquire(c, ip) /\ UNCHANGED <<vars, ar_vars, llm_vars, rest_vars>>
        \/ \E k \in Releasers :
            \/ ReleaseCheck(c, k) /\ UNCHANGED <<vars, ar_vars, llm_vars, rest_vars>>
            \/ ReleaseLocked(c, k) /\ UNCHANGED <<vars, ar_vars, llm_vars, rest_vars>>

SpecIPRace == InitIP /\ [][NextIPRace]_all_vars

\* The components a specification of submit with repeated ids does not run
not_dup == <<ip_vars, ar_vars, llm_vars, store_vars, retry_vars, task_vars,
             sd_vars, sse_vars, pool_vars, ttl_vars, stream_vars, sroute_vars,
             adm_vars, v1_vars>>

\* A pool of one worker whose callers may pass a job_id again
NextDup ==
    \E j \in Jobs :
        \/ \E k \in Keys : SubmitKey(j, k) /\ UNCHANGED not_dup
        \/ WorkerStart(j) /\ UNCHANGED <<dup_vars, not_dup>>
        \/ FnReturns(j) /\ UNCHANGED <<dup_vars, not_dup>>
        \/ OnComplete(j) /\ UNCHANGED <<dup_vars, not_dup>>

InitDup == QueueSideIdle /\ StoreSideIdle /\ MoreInit

SpecDup == InitDup /\ [][NextDup]_all_vars

\* The components a TTLDict specification does not run
not_ttl == <<queue_side, store_vars, retry_vars, task_vars, sd_vars, sse_vars,
             pool_vars, dup_vars, stream_vars, sroute_vars, adm_vars, v1_vars>>

\* One TTLDict under get, set, delete and cleanup calls as time passes
NextTtl ==
    \/ \E k \in TdKeys :
        \/ TdGet(k) /\ UNCHANGED not_ttl
        \/ \E ttl \in Ttls : TdSet(k, ttl) /\ UNCHANGED not_ttl
        \/ TdDelete(k) /\ UNCHANGED not_ttl
    \/ TdCleanup /\ UNCHANGED not_ttl
    \/ TdTick /\ UNCHANGED not_ttl

InitTtl == QueueSideIdle /\ StoreSideIdle /\ MoreInit

SpecTtl == InitTtl /\ [][NextTtl]_all_vars

\* The components a streaming call specification does not run
not_stream == <<vars, ip_vars, ar_vars, store_vars, retry_vars, task_vars,
                sd_vars, sse_vars, pool_vars, dup_vars, ttl_vars, sroute_vars,
                adm_vars, v1_vars>>

\* One consumer at a time reading streamed responses through the breaker
NextStream ==
    \/ \E t \in StreamThreads :
        \/ StreamCallStart(t) /\ UNCHANGED not_stream
        \/ StreamRequest(t) /\ UNCHANGED not_stream
        \/ StreamChunk(t) /\ UNCHANGED not_stream
        \/ StreamEnds(t) /\ UNCHANGED not_stream
        \/ \E exc \in Errors : StreamFails(t, exc) /\ UNCHANGED not_stream
        \/ EndSleep(t) /\ UNCHANGED <<stream_vars, not_stream>>
    \/ \E d \in 1..COOLDOWN : Advance(d) /\ UNCHANGED <<stream_vars, not_stream>>

InitStream == QueueSideIdle /\ StoreSideIdle /\ MoreInit

SpecStream == InitStream /\ [][NextStream]_all_vars

\* The components a streaming route specification does not run
not_sroute == <<vars, ar_vars, llm_vars, store_vars, retry_vars, task_vars,
                sd_vars, sse_vars, pool_vars, dup_vars, ttl_vars, stream_vars,
                adm_vars, v1_vars>>

\* Streaming requests from either address against _ip_sse_counts
NextSseRoute ==
    \E c \in 1..MaxSseReq :
        \/ \E ip \in IPs : SseRouteAcquire(c, ip) /\ UNCHANGED not_sroute
        \/ \E o \in SetupOutcomes : SseRouteSetup(c, o) /\ UNCHANGED not_sroute
        \/ SseRouteReleaseCheck(c) /\ UNCHANGED not_sroute
        \/ SseRouteReleaseLocked(c) /\ UNCHANGED not_sroute
        \/ SseBodyStarts(c) /\ UNCHANGED not_sroute
        \/ SseNeverStarted(c) /\ UNCHANGED not_sroute
        \/ \E how \in BodyEndings : SseBodyLeaves(c, how) /\ UNCHANGED not_sroute
        \/ SseFinallyReleaseCheck(c) /\ UNCHANGED not_sroute
        \/ SseFinallyReleaseLocked(c) /\ UNCHANGED not_sroute

InitSseRoute ==
    /\ Init /\ max_workers = 1 /\ max_queue_depth = MAX_QUEUE_DEPTH
    /\ IpInit /\ ip_max = MAX_SSE_PER_IP /\ ArInit /\ LlmInit
    /\ StoreSideIdle /\ MoreInit

SpecSseRoute == InitSseRoute /\ [][NextSseRoute]_all_vars

\* The components an admission specification does not run
not_adm == <<ip_vars, ar_vars, llm_vars, retry_vars, task_vars, sd_vars,
             sse_vars, more_vars>>

not_restart == <<ar_vars, llm_vars, retry_vars, task_vars, sd_vars, sse_vars,
                 pool_vars, dup_vars, ttl_vars, stream_vars, sroute_vars,
                 v1_vars>>

\* Admissions to one JobQueue of one worker and a waiting queue of
\* MaxDepth, so that all three submit outcomes occur
NextAdmission ==
    \E j \in Admitted :
        \/ \E fn \in TaskFns : Admit(j, fn) /\ UNCHANGED not_adm
        \/ AdmWorkerStart(j) /\ UNCHANGED not_adm
        \/ AdmFirstUpdate(j) /\ UNCHANGED not_adm
        \/ \E final \in FinalStatuses : AdmTaskEnds(j, final) /\ UNCHANGED not_adm
        \/ AdmOnComplete(j) /\ UNCHANGED not_adm

InitAdmission ==
    /\ Init /\ max_workers = 1 /\ max_queue_depth = MaxDepth
    /\ IpInit /\ ip_max = MAX_INGEST_PER_IP /\ ArInit /\ LlmInit
    /\ StoreSideIdle /\ MoreInit

SpecAdmission == InitAdmission /\ [][NextAdmission]_all_vars

\* The ingest queue with the ingest counter table: add_repo admissions,
\* requests taking and giving back per-IP slots, the cleanup round, the
\* clock, and a restart of the process
NextRestart ==
    \/ \E j \in Admitted :
        \/ Admit(j, "run_ingest") /\ UNCHANGED <<ip_vars, adm_vars, not_restart>>
        \/ AdmWorkerStart(j) /\ UNCHANGED <<ip_vars, adm_vars, not_restart>>
        \/ AdmFirstUpdate(j) /\ UNCHANGED <<ip_vars, adm_vars, not_restart>>
        \/ \E final \in FinalStatuses :
              AdmTaskEnds(j, final) /\ UNCHANGED <<ip_vars, adm_vars, not_restart>>
        \/ AdmOnComplete(j) /\ UNCHANGED <<ip_vars, adm_vars, not_restart>>
    \/ \E c \in 1..MaxHolders :
        \/ \E ip \in IPs :
              Acquire(c, ip) /\ UNCHANGED <<vars, store_vars, adm_vars, not_restart>>
        \/ ReleaseCheck(c, 1) /\ UNCHANGED <<vars, store_vars, adm_vars, not_restart>>
        \/ ReleaseLocked(c, 1) /\ UNCHANGED <<vars, store_vars, adm_vars, not_restart>>
    \/ Restart /\ UNCHANGED not_restart
    \/ Cleanup /\ UNCHANGED <<vars, ip_vars, adm_vars, not_restart>>
    \/ AdmTick /\ UNCHANGED <<vars, ip_vars, adm_vars, not_restart>>

SpecRestart == InitAdmission /\ [][NextRestart]_all_vars

\* The components a v1 API specification does not run
not_v1 == <<ip_vars, ar_vars, llm_vars, retry_vars, task_vars, sd_vars,
            sse_vars, pool_vars, dup_vars, ttl_vars, stream_vars, sroute_vars,
            adm_vars>>

\* v1 generate requests and their pollers against generate_queue, with one
\* worker and a waiting queue of MaxDepth
NextV1 ==
    \E j \in Admitted :
        \/ ApiGenerate(j) /\ UNCHANGED not_v1
        \/ AdmWorkerStart(j) /\ UNCHANGED <<v1_vars, not_v1>>
        \/ \E final \in FinalStatuses : AdmTaskEnds(j, final) /\ UNCHANGED <<v1_vars, not_v1>>
        \/ AdmOnComplete(j) /\ UNCHANGED <<v1_vars, not_v1>>
        \/ ApiGetJob(j) /\ UNCHANGED not_v1
        \/ JobEntryExpires(j) /\ UNCHANGED not_v1

SpecV1 == InitAdmission /\ [][NextV1]_all_vars

\* ------------------------------------------------------------------- claims

\* Place of x in the sequence s (0 when absent)
IndexOf(x, s) == IF InSeq(x, s) THEN CHOOSE i \in 1..Len(s) : s[i] = x ELSE 0

Queued == {j \in Jobs : pc[j] = "queued"}

\* Jobs whose submit put them in the queue (it returned "queued")
EverQueued == {j \in Jobs : submit_ret[j][1] = "queued"}

\* The queued job whose submit came first
OldestQueued == CHOOSE j \in Queued : \A k \in Queued : j <= k

\* The step is a submit call / a run of _on_complete
IsSubmitStep == next_job' # next_job
IsCompleteStep == completions' # completions

\* C1: in every reachable state, whatever the interleaving of submit,
\* completions, get_position and cancel, 0 <= active_count <= max_workers.
ActiveWithinBounds == 0 <= active_count /\ active_count <= max_workers

\* C1 witness: the pool is full after a completion and a cancel took place.
ActiveWithinBoundsWitness ==
    /\ active_count = max_workers
    /\ \E j \in Jobs : completions[j] = 1
    /\ \E j \in Jobs : pc[j] = "cancelled"
    /\ queue # <<>>

\* C2: a submit call starts the job (returns ("running", None), active_count
\* plus one) exactly when active_count / max_workers < 0.8; otherwise, with
\* room in the queue, it appends the job at the tail and returns ("queued", n),
\* n the queue length after the append; otherwise it returns
\* ("rejected", None).
SubmitContract ==
    [][IsSubmitStep =>
        LET j == next_job' IN
        IF 5 * active_count < 4 * max_workers
        THEN /\ submit_ret'[j] = <<"running", None>>
             /\ active_count' = active_count + 1
             /\ queue' = queue
        ELSE IF Len(queue) < max_queue_depth
        THEN /\ submit_ret'[j] = <<"queued", Len(queue) + 1>>
             /\ queue' = Append(queue, j)
             /\ active_count' = active_count
        ELSE /\ submit_ret'[j] = <<"rejected", None>>
             /\ active_count' = active_count
             /\ queue' = queue]_vars

\* C2 witness: a pool of 5 started four jobs and queued the fifth, submitted
\* with 4 of its 5 workers active (utilization exactly 0.8).
SubmitContractWitness ==
    /\ max_workers = 5
    /\ active_count = 4
    /\ \A j \in 1..4 : submit_ret[j] = <<"running", None>>
    /\ submit_ret[5] = <<"queued", 1>>

\* C3: FIFO fairness.  Of two jobs that are both in the queue, the one
\* enqueued first has the smaller position; and of two jobs that were both
\* queued, once the later one has been handed to the pool the earlier one was
\* handed to the pool before it, unless it was cancelled.
FifoFairness ==
    /\ \A a, b \in Queued : a < b => get_position(a) < get_position(b)
    /\ \A a, b \in EverQueued :
          (a < b /\ InSeq(b, dispatched) /\ pc[a] # "cancelled")
              => /\ InSeq(a, dispatched)
                 /\ IndexOf(a, dispatched) < IndexOf(b, dispatched)

\* C3 witness: two queued jobs have both been dispatched while a third one,
\* enqueued between them, was cancelled.
FifoFairnessWitness ==
    \E a, b, c \in EverQueued :
        /\ a < c /\ c < b
        /\ InSeq(a, dispatched) /\ InSeq(b, dispatched)
        /\ pc[c] = "cancelled"

\* C4: no starvation.  A completion that finds the queue non-empty dispatches
\* the oldest queued job, and a submit made while a job is queued is never
\* started at once.
NoStarvation ==
    [][/\ (IsCompleteStep /\ Queued # {}) =>
            /\ dispatched' = Append(dispatched, OldestQueued)
            /\ pc'[OldestQueued] = "pending"
       /\ (IsSubmitStep /\ Queued # {}) =>
            submit_ret'[next_job'][1] # "running"]_vars

\* C4 witness: a queued job was dispatched by a completion while a newer job
\* stays queued, and a still newer job was submitted behind it.
NoStarvationWitness ==
    \E a, b, c \in Jobs :
        /\ a < b /\ b < c
        /\ a \in EverQueued /\ InSeq(a, dispatched)
        /\ pc[b] = "queued"
        /\ pc[c] # "new"

\* C5: if every started task finishes, a job that submit queued is eventually
\* cancelled or handed to the pool and its task function run.
QueuedEventuallyRuns ==
    \A j \in Jobs : (pc[j] = "queued") ~> (pc[j] \in {"running", "cancelled"})

\* C5 witness: a job that waited in the queue behind another queued job has
\* run to its end.
QueuedEventuallyRunsWitness ==
    \E a, b \in EverQueued : a < b /\ pc[a] = "done" /\ pc[b] = "done"

\* C6: a submit made with utilization >= 0.8 and the queue at its maximum
\* depth returns ("rejected", None) and changes neither active_count nor the
\* queue nor what the pool holds.
RejectedLeavesState ==
    [][(/\ IsSubmitStep
        /\ 5 * active_count >= 4 * max_workers
        /\ Len(queue) >= max_queue_depth)
        => /\ submit_ret'[next_job'] = <<"rejected", None>>
           /\ active_count' = active_count
           /\ queue' = queue
           /\ pool_q' = pool_q
           /\ dispatched' = dispatched]_vars

\* C6 witness: with a depth of 0 and every worker busy a submit was rejected.
RejectedLeavesStateWitness ==
    /\ max_queue_depth = 0
    /\ active_count = max_workers
    /\ queue = <<>>
    /\ \E j \in Jobs : submit_ret[j] = <<"rejected", None>>

NoCompletionYet == \A j \in Jobs : completions[j] = 0

\* What the k-th of five submits returns on an idle pool of two workers
E2EExpected(k) == IF k <= 2 THEN <<"running", None>> ELSE <<"queued", k - 2>>

E2EFinal ==
    /\ \A j \in 1..5 : pc[j] = "done"
    /\ queue = <<>>
    /\ active_count = 0

\* C7: on a pool of two workers, five submits made before any completion
\* return running, running, queued 1, queued 2, queued 3; the first
\* completion then dispatches job 3; and, every task finishing, all five
\* tasks get executed and the queue ends empty with active_count = 0.
EndToEnd ==
    /\ [][(IsSubmitStep /\ NoCompletionYet /\ next_job' <= 5)
            => submit_ret'[next_job'] = E2EExpected(next_job')]_vars
    /\ [][(IsCompleteStep /\ NoCompletionYet /\ next_job = 5)
            => /\ pc'[3] = "pending"
               /\ dispatched' = <<1, 2, 3>>
               /\ queue' = <<4, 5>>]_vars
    /\ (next_job = 5 /\ NoCompletionYet) ~> E2EFinal

\* C7 witness: the five jobs, the last of them queued at position 3, are all
\* done on an idle pool.
EndToEndWitness ==
    /\ max_workers = 2
    /\ submit_ret[5] = <<"queued", 3>>
    /\ E2EFinal

\* C8: for every task that was started, whether fn returns or raises, the
\* finally clause runs _on_complete exactly once: one decrement of
\* active_count and, with a non-empty queue, the dispatch of its head; and no
\* exception leaves _wrap.
WrapContract ==
    /\ [](/\ escaped = {}
          /\ \A j \in Jobs : completions[j] = (IF pc[j] = "done" THEN 1 ELSE 0))
    /\ [][\A j \in Jobs :
            (pc[j] = "running" /\ pc'[j] # "running") => pc'[j] = "finally"]_vars
    /\ [][IsCompleteStep =>
            IF queue # <<>>
            THEN /\ active_count' = active_count
                 /\ queue' = Tail(queue)
                 /\ dispatched' = Append(dispatched, Head(queue))
            ELSE /\ active_count' = active_count - 1
                 /\ UNCHANGED <<queue, dispatched>>]_vars

\* C8 witness: the only job submitted raised, and its _wrap ran _on_complete
\* once and gave the worker back.
WrapContractWitness ==
    /\ next_job = 1
    /\ failure_logged
    /\ pc[1] = "done"
    /\ completions[1] = 1
    /\ active_count = 0

\* C9: get_position gives a queued job its 1-based place in enqueue order
\* among the queued jobs and None to any other id; the places of the queued
\* jobs are exactly 1..len(queue); and a job's place changes only by going
\* down by one in a step in which a job ahead of it leaves the queue.
PositionContract ==
    /\ [](/\ \A j \in Jobs :
                get_position(j) =
                    IF pc[j] = "queued"
                    THEN 1 + Cardinality({k \in Queued : k < j})
                    ELSE None
          /\ {get_position(j) : j \in Queued} = 1..Len(queue))
    /\ [][\A j \in Jobs :
            (pc[j] = "queued" /\ pc'[j] = "queued") =>
                \/ get_position(j)' = get_position(j)
                \/ /\ get_position(j)' = get_position(j) - 1
                   /\ \E k \in Queued :
                        /\ get_position(k) < get_position(j)
                        /\ pc'[k] # "queued"]_vars

\* C9 witness: a job queued at position 3 is now first in the queue, another
\* job queued behind it, one ahead of it cancelled and one dispatched.
PositionContractWitness ==
    \E a, b, c, d \in Jobs :
        /\ submit_ret[c] = <<"queued", 3>>
        /\ get_position(c) = 1
        /\ get_position(d) = 2
        /\ pc[a] = "cancelled"
        /\ b \in EverQueued /\ InSeq(b, dispatched)

\* C10: cancel returns True exactly for a job that is queued and then removes
\* its slot and nothing else; a cancelled job is never handed to the pool nor
\* executed; active_count and the running tasks are left as they were.
CancelContract ==
    /\ [](/\ \A j \in Jobs : cancel(j) <=> pc[j] = "queued"
          /\ \A j \in Jobs : pc[j] = "cancelled" =>
                /\ ~InSeq(j, queue)
                /\ ~InSeq(j, dispatched)
                /\ completions[j] = 0)
    /\ [][\A j \in Jobs :
            /\ pc[j] = "cancelled" => pc'[j] = "cancelled"
            /\ (pc[j] # "cancelled" /\ pc'[j] = "cancelled") =>
                  /\ pc[j] = "queued"
                  /\ queue' = SelectSeq(queue, LAMBDA x : x # j)
                  /\ Len(queue') = Len(queue) - 1
                  /\ active_count' = active_count
                  /\ pool_q' = pool_q
                  /\ \A k \in Jobs \ {j} : pc'[k] = pc[k]]_vars

\* C10 witness: a queued job was cancelled while another task was running,
\* and every other job has finished since.
CancelContractWitness ==
    \E j \in Jobs :
        /\ pc[j] = "cancelled"
        /\ submit_ret[j][1] = "queued"
        /\ \A k \in Jobs \ {j} : pc[k] = "done"
        /\ active_count = 0

\* ------------------------------------------------------ claims: the limiter

\* Contexts made for the address ip
CtxsOf(ip) == {c \in Ctxs : ctx_ip[c] = ip}

\* Contexts of ip that acquired a slot and have not released it
Holders(ip) == {c \in CtxsOf(ip) : ctx_acquired[c]}

\* The step is the try_acquire of context c
IsAcquireStep(c) == ctx_ret[c] = "none" /\ ctx_ret'[c] # "none"

\* Every context so far is for one address and nothing was released
OnlyAcquires(ip) ==
    /\ \A c \in 1..next_ctx : ctx_ip[c] = ip
    /\ \A c \in Ctxs : releases_done[c] = 0 /\ rel_pc[c][1] = "idle"

\* After cap + 1 acquires for one address, the last of them refused,
\* exactly one release was made
OneReleased(ip) ==
    /\ next_ctx = ip_max + 1
    /\ \A c \in 1..next_ctx : ctx_ip[c] = ip
    /\ ctx_ret[next_ctx] = "False"
    /\ \E c \in 1..ip_max :
          /\ releases_done = [x \in Ctxs |-> IF x = c THEN 1 ELSE 0]
          /\ rel_pc[c][1] = "idle"

\* C11: with per-IP cap N and an address that holds no slot, N successive
\* try_acquire calls return True, the (N+1)th returns False and leaves the
\* count as it was, and after one release the next try_acquire returns True
\* (cap 2: True, True, False, release, True).  In general try_acquire
\* returns False exactly when the address's count is at the cap.
TryAcquireContract ==
    /\ [](\A ip \in IPs : OnlyAcquires(ip) =>
            \A c \in 1..next_ctx :
                ctx_ret[c] = IF c <= ip_max THEN "True" ELSE "False")
    /\ [][\A c \in Ctxs : IsAcquireStep(c) =>
            LET ip == ctx_ip'[c]
                n == DictGet(ip_counts, ip, 0)
            IN  /\ n < ip_max => /\ ctx_ret'[c] = "True"
                                 /\ DictGet(ip_counts', ip, 0) = n + 1
                /\ n >= ip_max => /\ ctx_ret'[c] = "False"
                                  /\ ip_counts' = ip_counts
                /\ OneReleased(ip) => ctx_ret'[c] = "True"]_all_vars

TryAcquireContractWitness ==
    /\ ip_max = 2
    /\ next_ctx = 4
    /\ \A c \in 1..4 : ctx_ip[c] = "a"
    /\ ctx_ret[1] = "True" /\ ctx_ret[2] = "True"
    /\ ctx_ret[3] = "False" /\ ctx_ret[4] = "True"
    /\ releases_done[1] + releases_done[2] = 1
    /\ DictGet(ip_counts, "a", 0) = 2

RequestOver(c) ==
    /\ req_pc[c] \in Responses
    /\ req_job[c] # 0 /\ submit_ret[req_job[c]][1] # "rejected" => pc[req_job[c]] = "done"

\* Some request of the address is in flight or has a task queued or running
IngestUnderWay(ip) == \E c \in CtxsOf(ip) : ~RequestOver(c)

\* C13: for every add_repo request whose acquire_ingest succeeded the slot
\* is released exactly once on every path: at once when the request ends
\* before its task is dispatched (short balance, "rejected", an error raised
\* between the acquire and the submit), otherwise when the ingest task
\* finishes; hence an address with no ingest request in flight or queued
\* has count 0.
SlotReleasedOnce ==
    /\ \A c \in Ctxs : releases_done[c] <= 1
    /\ \A c \in Ctxs : ctx_ret[c] = "True" /\ RequestOver(c) => releases_done[c] = 1
    /\ \A ip \in IPs : ~IngestUnderWay(ip) => DictGet(ip_counts, ip, 0) = 0

\* ---------------------------------- claims: circuit breaker and retrying call

\* The step is a record_failure / a record_success of the breaker
IsRecordFailure == total_errors' = total_errors + 1
IsRecordSuccess == total_calls' = total_calls + 1 /\ total_errors' = total_errors

\* The step issues an upstream request for thread t
IsRequestStep(t) == call_pc[t] = "ready" /\ call_pc'[t] = "inflight"

\* The step is the entry of some thread into call_llm
IsCallStart == calls_started' = calls_started + 1

\* n attempts that all ended in a transient failure
AllTransient(n) == [i \in 1..n |-> "transient"]

\* C14: after `threshold` consecutive record_failure calls with no
\* record_success in between, is_open is true; once `cooldown` seconds have
\* elapsed since the last opening with no further failure, is_open is
\* false; a single record_success sets consecutive_failures to 0.
BreakerContract ==
    /\ [](is_open <=> since_opened < COOLDOWN)
    /\ [][/\ IsRecordFailure =>
                /\ failure_count' = failure_count + 1
                /\ failure_count' >= FAILURE_THRESHOLD => is_open' /\ since_opened' = 0
                /\ failure_count' < FAILURE_THRESHOLD =>
                      open_until' = open_until /\ since_opened' = since_opened
          /\ IsRecordSuccess => failure_count' = 0]_all_vars

BreakerContractWitness ==
    /\ total_calls = 6
    /\ total_errors = FAILURE_THRESHOLD
    /\ failure_count = FAILURE_THRESHOLD
    /\ since_opened = COOLDOWN
    /\ ~is_open

\* C15: while the circuit is open no upstream attempt is made: under any
\* interleaving of concurrent calls, every upstream request is issued at a
\* moment when is_open is false.
NoRequestWhileOpen ==
    [][\A t \in Threads : IsRequestStep(t) => ~is_open]_all_vars

\* C16: a call_llm invocation that finds the circuit open raises at once,
\* with no upstream attempt and no backoff sleep, and leaves
\* consecutive_failures, total_calls, total_errors and open_until as they
\* were (it is not counted as a failure).
FailFastContract ==
    /\ [](\A t \in Threads : call_ret[t] = <<"circuit_open", 0>> =>
            /\ call_pc[t] = "done"
            /\ requests[t] = 0 /\ slept[t] = <<>> /\ outcomes[t] = <<>>
            /\ successes[t] = 0 /\ failures[t] = 0)
    /\ [][IsCallStart /\ is_open =>
            /\ \E t \in Threads :
                  /\ call_pc[t] \in {"idle", "done"}
                  /\ call_pc'[t] = "done"
                  /\ call_ret'[t] = <<"circuit_open", 0>>
            /\ UNCHANGED <<failure_count, total_calls, total_errors, open_until,
                           n_latencies, since_opened>>]_all_vars

FailFastContractWitness ==
    /\ is_open
    /\ failure_count = FAILURE_THRESHOLD
    /\ total_calls = FAILURE_THRESHOLD
    /\ calls_started = FAILURE_THRESHOLD + 1
    /\ \E t \in Threads : call_ret[t] = <<"circuit_open", 0>>

\* C17: a call whose first k attempts (1 <= k <= 3) fail with a retryable
\* error and whose next attempt succeeds returns the successful result,
\* calls record_success exactly once and never calls record_failure.
RetryThenSuccess ==
    \A t \in Threads : \A k \in 1..Len(RETRY_DELAYS) :
        /\ outcomes[t] = AllTransient(k) =>
              /\ call_pc[t] \in {"sleeping", "ready", "inflight"}
              /\ successes[t] = 0 /\ failures[t] = 0
        /\ outcomes[t] = Append(AllTransient(k), "ok") =>
              /\ call_pc[t] = "done"
              /\ call_ret[t] = <<"ok", 0>>
              /\ requests[t] = k + 1
              /\ successes[t] = 1 /\ failures[t] = 0

RetryThenSuccessWitness ==
    \E t \in Threads :
        /\ outcomes[t] = <<"transient", "transient", "transient", "ok">>
        /\ call_ret[t] = <<"ok", 0>>
        /\ slept[t] = <<2, 4, 8>>
        /\ total_calls = 1 /\ total_errors = 0

\* C18: a call whose every attempt fails with a retryable error makes
\* exactly len(RETRY_DELAYS) + 1 = 4 upstream attempts, waiting 2, 4 and 8
\* seconds between them in that order, then calls record_failure exactly
\* once (record_success never) and raises the last error.
RetriesExhausted ==
    /\ [](\A t \in Threads :
            /\ requests[t] <= 4
            /\ (outcomes[t] # <<>> /\ outcomes[t] = AllTransient(Len(outcomes[t]))
                  /\ call_pc[t] = "done") =>
                  /\ requests[t] = 4 /\ Len(outcomes[t]) = 4
                  /\ slept[t] = <<2, 4, 8>>
                  /\ failures[t] = 1 /\ successes[t] = 0
                  /\ call_ret[t] \in TransientErrors)
    /\ [][\A t \in Threads :
            call_pc[t] = "sleeping" /\ call_pc'[t] # "sleeping" =>
                wake_at[t] = Now /\ call_pc'[t] = "ready"]_all_vars

RetriesExhaustedWitness ==
    \E t \in Threads :
        /\ outcomes[t] = AllTransient(4)
        /\ call_ret[t] = <<"status", 503>>
        /\ requests[t] = 4
        /\ slept[t] = <<2, 4, 8>>
        /\ total_errors = 1

\* C19: an attempt that fails with a non-retryable error (a status other
\* than 429, 500, 502, 503, or an exception that is neither a connection
\* error nor a timeout) ends the call at once: no further attempt and no
\* sleep, record_failure is called exactly once, and the error propagates.
FatalEndsCall ==
    /\ \A exc \in Errors :
          (exc \notin TransientErrors) <=>
              \/ exc[1] = "status" /\ exc[2] \notin {429, 500, 502, 503}
              \/ exc[1] \notin {"status", "connection", "timeout"}
    /\ \A t \in Threads :
          \A n \in 1..Len(outcomes[t]) : outcomes[t][n] = "fatal" =>
              /\ n = Len(outcomes[t])
              /\ call_pc[t] = "done"
              /\ requests[t] = n
              /\ slept[t] = SubSeq(RETRY_DELAYS, 1, n - 1)
              /\ failures[t] = 1 /\ successes[t] = 0
              /\ call_ret[t] \in Errors \ TransientErrors

FatalEndsCallWitness ==
    \E t \in Threads :
        /\ outcomes[t] = <<"transient", "fatal">>
        /\ call_ret[t] = <<"status", 400>>
        /\ requests[t] = 2
        /\ slept[t] = <<2>>
        /\ failures[t] = 1

\* C20: a call to CircuitBreaker.stats() made in any reachable state
\* returns, and leaves the breaker's lock free so that later is_open,
\* record_success, record_failure and stats calls still complete.
StatsReturns ==
    /\ LockFree
    /\ \A t \in Threads : call_pc[t] # "stats_blocked"

\* The fields an update_job call supplies
Given(u) == {f \in {"status", "message", "result"} : u[f] # NoneStr}

\* The row carries every value the call supplied
Reflects(r, u) == \A f \in Given(u) : r[f] = u[f]

\* new_tbl is old_tbl with the supplied fields and updated_at of the row id
\* replaced, and nothing else
OnlyGivenChanged(old_tbl, new_tbl, id, u) ==
    /\ Cardinality(new_tbl) = Cardinality(old_tbl)
    /\ \A r \in old_tbl :
          IF r.id # id THEN r \in new_tbl
          ELSE \E n \in new_tbl :
                  /\ n.id = id
                  /\ Reflects(n, u)
                  /\ \A f \in {"status", "message", "result"} \ Given(u) :
                        n[f] = r[f]
                  /\ n.kind = r.kind /\ n.repo_id = r.repo_id
                  /\ n.created_at = r.created_at
                  /\ n.updated_at = db_now

\* The value get_job returns once u1 and then u2 were applied to the row id
AfterBoth(tbl, id, u1, u2) ==
    get_job(update_job(update_job(tbl, id, u1, db_now), id, u2, db_now), id)

\* The pairs of update_job calls that supply disjoint fields
DisjointUpdates ==
    {p \in UpdateCalls \X UpdateCalls : Given(p[1]) \cap Given(p[2]) = {}}

\* C21: update_job changes only the fields it is given, plus updated_at, of
\* the record with that id; two updates of disjoint fields of one id, in
\* either order, are both reflected by a later get_job.
PartialUpdate ==
    \A tbl \in {sq_jobs, pg_jobs} :
        /\ \A id \in JobIds : \A u \in UpdateCalls :
              OnlyGivenChanged(tbl, update_job(tbl, id, u, db_now), id, u)
        /\ \A r \in tbl : \A p \in DisjointUpdates :
              LET after == AfterBoth(tbl, r.id, p[1], p[2])
              IN  /\ Len(after) = 1
                  /\ Reflects(after[1], p[1])
                  /\ Reflects(after[1], p[2])

PartialUpdateWitness ==
    /\ got # <<>>
    /\ Len(got[2]) = 1
    /\ got[2][1].kind = "generate"
    /\ got[2][1].status = "running"
    /\ got[2][1].message = "50%"
    /\ got[2][1].result = NoneStr
    /\ got[2][1].updated_at > got[2][1].created_at
    /\ got[3] = got[2]

\* A table row without its timestamps
Untimed(r) == [r EXCEPT !.created_at = 0, !.updated_at = 0]

UntimedTable(tbl) == {Untimed(r) : r \in tbl}

\* The table holds exactly one row for id, with the values of the call
OneRecord(tbl, id, c) ==
    /\ Cardinality(Conflict(tbl, id)) = 1
    /\ \A r \in Conflict(tbl, id) :
          /\ r.kind = c.kind /\ r.status = c.status
          /\ r.message = c.message /\ r.repo_id = c.repo_id

\* C22: after create_job exactly one record exists for the id, with the
\* given kind, status, message and repo_id; the same create_job made again,
\* at once or later, leaves the table, timestamps aside, as it was after
\* the first.
UpsertIdempotent ==
    /\ \A id \in JobIds :
          /\ Cardinality(Conflict(sq_jobs, id)) <= 1
          /\ Cardinality(Conflict(pg_jobs, id)) <= 1
    /\ \A id \in CreatedIds : \A c \in CreateCalls :
          LET sq == sq_create_job(sq_jobs, id, c, db_now)
              pg == pg_create_job(pg_jobs, id, c, db_now)
          IN  /\ OneRecord(sq, id, c)
              /\ OneRecord(pg, id, c)
              /\ \A t \in db_now..MaxTime :
                    /\ UntimedTable(sq_create_job(sq, id, c, t))
                          = UntimedTable(sq)
                    /\ UntimedTable(pg_create_job(pg, id, c, t))
                          = UntimedTable(pg)

UpsertIdempotentWitness ==
    /\ \E r \in sq_jobs : r.id = "j1" /\ r.created_at = 1 /\ r.result = NoneStr
    /\ \E r \in pg_jobs : r.id = "j1" /\ r.created_at = 0 /\ r.updated_at = 1
    /\ UntimedTable(sq_jobs) = UntimedTable(pg_jobs)

\* C28: the SQLite and the PostgreSQL job store are interchangeable: given
\* the same create_job, update_job and get_job calls, get_job returns the
\* same values from both (timestamps aside), also after a create_job on an
\* id that already has a record with a result.
StoresAgree ==
    got # <<>> =>
        /\ Len(got[2]) = Len(got[3])
        /\ \A n \in 1..Len(got[2]) : Untimed(got[2][n]) = Untimed(got[3][n])

\* The first n outcomes of the call are "locked" operational errors
AllLocked(s, n) == \A i \in 1..n : IsLocked(s[i])

\* The sleeps before attempt n + 1: 0.1 s, 0.2 s, ...
Backoff(n) == [i \in 1..n |-> 2 ^ (i - 1)]

\* C23: db_retry(fn, retries=3) calls fn at most 3 times and returns the
\* first success; a "locked" OperationalError on attempt 1 or 2 is retried
\* after 0.1 s and 0.2 s respectively; a "locked" error on the third
\* attempt, or any other error on any attempt, is raised with no further
\* call of fn.
RetryContract ==
    \A t \in Threads :
        LET n == Len(rt_outcomes[t]) IN
        /\ n <= 3
        /\ AllLocked(rt_outcomes[t], n - 1)
        /\ rt_pc[t] = "calling" =>
              /\ AllLocked(rt_outcomes[t], n)
              /\ rt_waits[t] = Backoff(n) /\ n <= 2
        /\ rt_pc[t] = "sleeping" =>
              /\ AllLocked(rt_outcomes[t], n)
              /\ rt_waits[t] = Backoff(n) /\ n \in {1, 2}
        /\ rt_pc[t] = "returned" =>
              /\ n >= 1
              /\ rt_outcomes[t][n][1] = "ok"
              /\ rt_ret[t] = rt_outcomes[t][n]
              /\ rt_waits[t] = Backoff(n - 1)
        /\ rt_pc[t] = "raised" =>
              /\ n >= 1
              /\ rt_outcomes[t][n] \in DbErrors
              /\ IsLocked(rt_outcomes[t][n]) => n = 3
              /\ rt_ret[t] = rt_outcomes[t][n]
              /\ rt_waits[t] = Backoff(n - 1)

RetryContractWitness ==
    /\ rt_pc[1] = "raised"
    /\ Len(rt_outcomes[1]) = 3
    /\ rt_ret[1] = <<"OperationalError", "database is locked">>
    /\ rt_waits[1] = <<1, 2>>
    /\ rt_pc[2] = "returned"
    /\ Len(rt_outcomes[2]) = 3
    /\ rt_waits[2] = <<1, 2>>

\* C30: consecutive_failures is changed only by record_failure (plus one)
\* and record_success (reset to 0); neither the opening of the circuit nor
\* the expiry of the cooldown resets it, so once the cooldown has elapsed
\* with no record_success the next record_failure opens the circuit again
\* for a full cooldown.
CounterOutlivesCooldown ==
    [][/\ failure_count' # failure_count =>
              \/ IsRecordFailure /\ failure_count' = failure_count + 1
              \/ IsRecordSuccess /\ failure_count' = 0
       /\ ~is_open /\ is_open' => failure_count' = failure_count + 1
       /\ is_open /\ ~is_open' => failure_count' = failure_count
       /\ IsRecordFailure /\ ~is_open /\ failure_count >= FAILURE_THRESHOLD =>
              /\ is_open'
              /\ open_until' = In(COOLDOWN)
              /\ since_opened' = 0]_all_vars

CounterOutlivesCooldownWitness ==
    /\ call_pc[2] = "idle"
    /\ calls_started = FAILURE_THRESHOLD + 1
    /\ failure_count = FAILURE_THRESHOLD + 1
    /\ total_errors = FAILURE_THRESHOLD + 1
    /\ open_until = In(COOLDOWN)
    /\ since_opened = 0

\* queued, then a status of the work under way, then a terminal status
Terminal == {"done", "ready", "error"}

Rank(st) == IF st = "queued" THEN 0 ELSE IF st \in Terminal THEN 2 ELSE 1

\* No row of the table went back, and no terminal row changed its status
Forward(old_tbl, new_tbl) ==
    \A r \in old_tbl : \A n \in new_tbl :
        n.id = r.id =>
            /\ Rank(n.status) >= Rank(r.status)
            /\ r.status \in Terminal => n.status = r.status

\* C24: the status of a job record only moves forward (queued, then
\* generating or an ingest progress status, then done/ready or error): once
\* it is terminal no later write by the task or its except clause changes
\* it, and no record goes back to queued.
StatusForward ==
    [][Forward(sq_jobs, sq_jobs') /\ Forward(pg_jobs, pg_jobs')]_all_vars

StatusForwardWitness ==
    /\ ~use_postgres
    /\ tk_fn["j1"] = "run_audio_gen"
    /\ tk_pc["j1"] = "ended"
    /\ tk_written["j1"] = "done"
    /\ \E r \in sq_jobs : r.id = "j1" /\ r.status = "done" /\ r.result = "out"

\* C25: when a step of a dispatched task raises, the job's record ends
\* with status "error" and the exception's message; no job whose task has
\* ended is left with a status that is not terminal.
FailedTaskMarked ==
    \A j \in CreatedIds :
        tk_pc[j] = "ended" =>
            \E r \in Authoritative :
                /\ r.id = j
                /\ r.status \in Terminal
                /\ tk_failed[j] => r.status = "error" /\ r.message = ExcMessage

\* C27: a status written by a background task is the status a later
\* get_job of the polling endpoint returns, under either backend.
WritesReachPollers ==
    \A j \in CreatedIds :
        got # <<>> /\ got[1] = j /\ tk_written[j] # NoneStr =>
            /\ Len(Polled) = 1
            /\ Polled[1].status = tk_written[j]

\* C29: JobQueue.submit never raises, it returns ("running", None),
\* ("queued", p) or ("rejected", None) in every state; and when handing a
\* task to the executor fails (after shutdown_pools), active_count and the
\* queue are left as they were before the failing submit or completion.
SubmitNeverRaises ==
    /\ [](\A j \in Jobs :
            submit_ret[j][1] \in {"none", "running", "queued", "rejected"})
    /\ [][refusals' # refusals =>
            active_count' = active_count /\ queue' = queue]_all_vars

\* The streams inside the async with block
Inside == {s \in Streams : sse_pc[s] = "inside"}

\* C26: the number of streaming responses inside the sse_semaphore block
\* never exceeds MAX_SSE_STREAMS, and a stream that took the semaphore gives
\* it back exactly once, whether it ends normally, the client disconnects
\* or an exception is raised mid-stream.
SemaphoreBound ==
    /\ Cardinality(Inside) <= MaxSse
    /\ sem_value = MaxSse - Cardinality(Inside)
    /\ \A s \in Streams :
          /\ sse_acq[s] <= 1
          /\ sse_rel[s] = IF sse_pc[s] \in {"finally", "done"} THEN sse_acq[s]
                          ELSE 0
          /\ sse_end[s] \in Endings => sse_acq[s] = 1 /\ sse_rel[s] = 1

SemaphoreBoundWitness ==
    /\ \A how \in Endings :
          \E s \in Streams : sse_pc[s] = "done" /\ sse_end[s] = how
    /\ \E s \in Streams : sse_pc[s] = "waiting"
    /\ Cardinality(Inside) = 0
    /\ sem_value = MaxSse

\* -------------------------------------------------- claims: the three queues

\* ceil(0.8 * w) for a whole number w
CeilFourFifths(w) == (4 * w + 4) \div 5

\* C32: a submit counts one more job active only while 5 * active_count <
\* 4 * max_workers, so active_count never exceeds ceil(0.8 * max_workers):
\* at most 7 of 8 ingest workers, 10 of 12 generate workers, 4 of 4 audio
\* workers, and 4 of a pool of 5.
ActiveCeiling ==
    /\ [](\A p \in Pools :
            /\ pool_active[p] <= CeilFourFifths(pool_workers[p])
            /\ pool_workers[p] = 8 => pool_active[p] <= 7
            /\ pool_workers[p] = 12 => pool_active[p] <= 10
            /\ pool_workers[p] = 4 => pool_active[p] <= 4
            /\ pool_workers[p] = 5 => pool_active[p] <= 4)
    /\ [][\A p \in Pools :
            pool_active'[p] > pool_active[p] =>
                5 * pool_active[p] < 4 * pool_workers[p]]_all_vars

\* C32 witness: with the shipped sizes the three queues count 7, 10 and 4
\* jobs active, each with a job waiting.
ActiveCeilingWitness ==
    /\ pool_workers = DefaultWorkers
    /\ pool_active["ingest"] = 7
    /\ pool_active["generate"] = 10
    /\ pool_active["audio"] = 4
    /\ \A p \in Pools : pool_queued[p] > 0

\* Jobs handed to the executor whose _on_complete is still to come
InFlight == {j \in Jobs : pc[j] \in {"pending", "running", "finally"}}

\* C33: in every reachable state of a JobQueue with max_workers >= 1, a
\* non-empty queue means active_count / max_workers >= 0.8, hence
\* active_count >= 1, and a task is with the executor whose completion
\* will dispatch from the queue; cancel calls and completions interleaved
\* with submits do not change that.
QueuedBehindActive ==
    (max_workers >= 1 /\ queue # <<>>) =>
        /\ 5 * active_count >= 4 * max_workers
        /\ active_count >= 1
        /\ InFlight # {}

\* C33 witness: a pool of two with a job waiting, after another queued job
\* was cancelled and a completion dispatched from the queue.
QueuedBehindActiveWitness ==
    /\ max_workers = 2
    /\ queue # <<>>
    /\ \E j \in Jobs : pc[j] = "cancelled"
    /\ \E j \in EverQueued : InSeq(j, dispatched)
    /\ Cardinality(InFlight) = 2

\* ------------------------------------------- claims: release() from two threads

\* Contexts of ip whose try_acquire returned True
Acquirers(ip) == {c \in CtxsOf(ip) : ctx_ret[c] = "True"}

\* Of those, the ones release() has been called on and has got through
Released(ip) == {c \in Acquirers(ip) : releases_done[c] >= 1}

\* C35: for one IPLimitContext that acquired once, any number of release()
\* calls, also calls made at the same time from different threads, take
\* one off that address's count exactly once in total; release() on a
\* context that never acquired changes nothing.
ReleaseOnceInTotal ==
    /\ \A c \in Ctxs : ctx_ret[c] # "True" => releases_done[c] = 0
    /\ \A ip \in IPs :
          DictGet(ip_counts, ip, 0) =
              Cardinality(Acquirers(ip)) - Cardinality(Released(ip))

\* ------------------------------------------------- claims: repeated job ids

\* C34: each submit that returns ("queued", p) makes a slot of its own,
\* also when its job_id is in the queue already: the queue grows by one,
\* get_position(job_id) right after it returns p, and the task given to it
\* and the task of every earlier queued submit is still run when its slot
\* is dispatched (no queued task leaves the queue other than to the pool).
SlotPerSubmit ==
    /\ [](\A j \in EverQueued : InSeq(j, queue) \/ InSeq(j, dispatched))
    /\ [][(IsSubmitStep /\ submit_ret'[next_job'][1] = "queued") =>
            /\ Len(queue') = Len(queue) + 1
            /\ KeyPosition(queue', job_key', job_key'[next_job']) =
                  submit_ret'[next_job'][2]]_all_vars

\* ------------------------------------------------------------ claims: TTLDict

\* The keys listed in _access_order
Listed == {td_access_order[i] : i \in 1..Len(td_access_order)}

\* The stored key whose last use lies furthest back
LeastRecentlyUsed ==
    LET present == SelectSeq(td_recency, LAMBDA x : x \in DOMAIN td_data)
    IN  IF present = <<>> THEN "none" ELSE Head(present)

\* C40: for a TTLDict with max_size > 0, after any sequence of get, set,
\* delete and cleanup calls the number of entries is at most max_size;
\* _data, _expires and _access_order hold the same keys, none listed twice;
\* a set of a new key at capacity evicts the least recently used key (the
\* one least recently set or successfully read) and no other; and get never
\* returns a value whose expiry time has passed.
TtlDictContract ==
    /\ [](/\ Cardinality(DOMAIN td_data) <= MaxSize
          /\ DOMAIN td_expires = DOMAIN td_data
          /\ Listed = DOMAIN td_data
          /\ Len(td_access_order) = Cardinality(DOMAIN td_data)
          /\ (td_ret # <<>> /\ td_ret[2] # NoneStr) =>
                /\ td_ret[1] \in DOMAIN td_expires
                /\ td_expires[td_ret[1]] > td_now)
    /\ [][\A k \in TdKeys :
            (/\ k \notin DOMAIN td_data
             /\ k \in DOMAIN td_data'
             /\ Cardinality(DOMAIN td_data) = MaxSize) =>
                /\ td_evicted' = LeastRecentlyUsed
                /\ DOMAIN td_data' =
                      (DOMAIN td_data \ {LeastRecentlyUsed}) \cup {k}]_all_vars

\* C40 witness: a set of c at capacity has just evicted b, the key whose
\* last use lies furthest back, while a, used after b, stays stored although
\* its expiry time has passed.
TtlDictContractWitness ==
    /\ td_evicted = "b"
    /\ DOMAIN td_data = {"a", "c"}
    /\ td_recency = <<"b", "a", "c">>
    /\ td_expires["a"] <= td_now

\* ------------------------------------------------- claims: streamed responses

\* The chunks of the response read in the attempt a, n of them
ResponseChunks(a, n) == [i \in 1..n |-> <<a, i>>]

\* C37: the chunks a call_llm_stream (or call_llm_stream_messages) call that
\* ends without raising has delivered to its consumer are exactly the
\* chunks of one upstream response, each once and in order, also when an
\* earlier attempt failed with a retryable error after some of its chunks
\* had been yielded.
SingleResponseDelivered ==
    \A t \in Threads :
        (call_pc[t] = "done" /\ call_ret[t] = <<"ok", 0>>) =>
            str_delivered[t] = ResponseChunks(attempt[t], str_yielded[t])

\* ------------------------------------------------ claims: streaming routes

\* Requests of ip whose stream is open: acquire_sse succeeded and the
\* request is not over
OpenStreams(ip) ==
    {c \in Ctxs : ctx_ip[c] = ip /\ sr_pc[c] \notin SrOver \cup {"none"}}

\* C36: for every generate_stream / chat_stream request whose acquire_sse
\* succeeded the per-IP stream slot is released exactly once on every path
\* (error response, exception before the response is returned, normal end
\* of the stream, exception in the stream, client gone before the body
\* starts or while it runs), so an address with no open stream has count 0.
SseSlotReleased ==
    /\ \A c \in Ctxs :
          (ctx_ret[c] = "True" /\ sr_pc[c] \in SrOver) => releases_done[c] = 1
    /\ \A c \in Ctxs : releases_done[c] <= 1
    /\ \A ip \in IPs : OpenStreams(ip) = {} => DictGet(ip_counts, ip, 0) = 0

\* ------------------------------------------ claims: admission and restart

\* Jobs whose record may rightly say "queued": waiting in the JobQueue, or
\* handed to the executor with the first update_job call still to come
AwaitingFirstUpdate ==
    {j \in Jobs : InSeq(j, queue) \/ pc[j] \in {"pending", "running"}}

\* C39: every job record in status "queued" belongs to a job that waits in
\* a JobQueue or has been dispatched and has not yet made its first status
\* update; an admission that ended in "rejected" leaves no record of that
\* job in a non-terminal status.
QueuedRecordsAreLive ==
    /\ \A j \in Jobs : StatusOf(j) = "queued" => j \in AwaitingFirstUpdate
    /\ \A j \in Jobs :
          submit_ret[j][1] = "rejected" => StatusOf(j) \in Terminal \cup {"absent"}

\* C31, the restart step: active_count is 0, the queue and the executor's
\* work queue are empty, the counter table is empty, and the job records
\* are the ones there were.
RestartStep ==
    restarts' # restarts =>
        /\ active_count' = 0
        /\ queue' = <<>>
        /\ pool_q' = <<>>
        /\ ip_counts' = <<>>
        /\ sq_jobs' = sq_jobs

\* C31, afterwards: a job that was queued and not dispatched when the
\* process restarted has not been handed to an executor, and its record
\* says "queued" or has been deleted.
LostStayLost ==
    \A j \in Jobs :
        pc[j] = "lost_queued" =>
            /\ ~InSeq(j, dispatched)
            /\ StatusOf(j) \in {"queued", "absent"}

\* C31, deletion: a record that disappears was deleted by cleanup_old_jobs,
\* being older than MaxAge.
OnlyCleanupDeletes ==
    \A r \in sq_jobs : r \notin sq_jobs' /\ get_job(sq_jobs', r.id) = <<>>
                          => r.created_at < db_now - MaxAge

\* C31: a process restart resets active_count to 0 and empties the queue
\* and the per-IP counter table while the job records are kept unchanged;
\* a job that was queued but not dispatched at the restart is never
\* dispatched afterwards, and its record keeps status "queued" until a
\* cleanup deletes it.
RestartContract ==
    /\ []LostStayLost
    /\ [][RestartStep /\ OnlyCleanupDeletes]_all_vars

\* A restart found a job running, a job queued and a slot held; the new
\* process has admitted and finished a later job, the queued one's record
\* still says "queued", and nothing is active, queued or counted.
RestartContractWitness ==
    /\ restarts = 1
    /\ \E j \in Jobs, k \in Jobs :
          /\ pc[j] = "lost_queued" /\ StatusOf(j) = "queued"
          /\ k > j /\ pc[k] = "done" /\ StatusOf(k) = "done"
    /\ \E j \in Jobs : pc[j] = "lost_running"
    /\ active_count = 0 /\ queue = <<>> /\ ip_counts = <<>>

\* ------------------------------------------------------- claims: the v1 API

\* C38: a generate job accepted by api_generate (submit returned running
\* or queued) is, once its task has finished, reported by api_get_job with
\* a terminal status, done or error.
FinishedJobsReportTerminal ==
    \A j \in Jobs :
        (/\ submit_ret[j][1] \in {"running", "queued"}
         /\ polled[j] # <<>>
         /\ polled[j][2])
            => polled[j][1] \in FinalStatuses

====
